---------------------------- MODULE Spec2Model ----------------------------
(***************************************************************************)
(* A model of pyDis' Peierls-Nabarro driver (pyDis/pn/_pn_control.py) and  *)
(* of the gamma-line / gamma-surface extraction script                     *)
(* (pyDis/pn/read_gsf.py).                                                 *)
(*                                                                         *)
(* Python values are records [k, s, n, x]: k is the Python type, s the     *)
(* text of a str, n the payload of a number.  A dict is a function over    *)
(* the keys it may hold; a key it does not hold maps to Missing.  The set  *)
(* of keys of the top-level dict is kept in simKeys.                       *)
(*                                                                         *)
(* A float's n counts 1e-4 units (3.5 is 35000) and its x is what the      *)
(* float holds beyond its 12th significant digit, in units of the 13th     *)
(* (3.500000000003 has x = 3).  Python 2's str() of a float keeps 12       *)
(* significant digits: Str12.                                              *)
(***************************************************************************)
EXTENDS Integers, Sequences, FiniteSets, TLC

VARIABLES
    file,       \* the control file: namelist -> card -> text, or Absent
    sim,        \* PNSim.sim / param_dict: namelist -> card -> value
    simKeys,    \* the namelists that are keys of param_dict
    pc,         \* the statement PNSim.__init__ / main is at
    nli,        \* handle_pn_control: index of the namelist being handled
                \* (one past the last: the elast cards; two past: done)
    ci,         \* handle_pn_control: index of the card being handled
    err,        \* the exception that ended the run, or NoErr
    self,       \* the attributes of the PNSim object
    calls,      \* the calls made to the external modules, in order
    started,    \* the stages of PNSim.__init__ that were started, in order
    returned,   \* the stages that returned without raising, in order
    streams,    \* the output streams: name -> "closed" | "open" | "unopened"
    report,     \* the sections written to the report file, in order
    mapLog,     \* from_mapping: the evaluations made, in order
    gr          \* read_gsf.main: the state of the extraction script

vars == <<file, sim, simKeys, pc, nli, ci, err, self, calls, started,
          returned, streams, report, mapLog, gr>>

pnVars == <<file, sim, simKeys, pc, nli, ci, err, self, calls, started,
            returned, streams, report, mapLog>>

---------------------------------------------------------------------------
(* Python values *)

None == [k |-> "None", s |-> "", n |-> 0, x |-> 0]

Missing == [k |-> "missing", s |-> "", n |-> 0, x |-> 0]

StrV(t) == [k |-> "str", s |-> t, n |-> 0, x |-> 0]

IntV(i) == [k |-> "int", s |-> "", n |-> i, x |-> 0]

FloatV(f) == [k |-> "float", s |-> "", n |-> f, x |-> 0]

FloatX(f, r) == [k |-> "float", s |-> "", n |-> f, x |-> r]

NaN == [k |-> "float", s |-> "nan", n |-> 0, x |-> 0]

BoolV(b) == [k |-> "bool", s |-> "", n |-> IF b THEN 1 ELSE 0, x |-> 0]

VecV(len) == [k |-> "vec", s |-> "", n |-> len, x |-> 0]

CijObj == [k |-> "cij", s |-> "", n |-> 0, x |-> 0]

\* the marker of a card the control file does not supply
Absent == "<absent>"

\* bool(v) of Python
Truthy(v) ==
    CASE v.k = "bool" -> v.n = 1
      [] v.k = "str" -> v.s # ""
      [] v.k = "int" -> v.n # 0
      [] v.k = "float" -> v.s = "nan" \/ v.n # 0
      [] v.k = "None" -> FALSE
      [] OTHER -> TRUE

---------------------------------------------------------------------------
(* The texts of the model's control files, and what Python reads in them *)

\* int(t): the texts int() accepts, with their value
IntTexts == {"1", "2", "3", "5"}

IntOf(t) ==
    CASE t = "1" -> 1
      [] t = "2" -> 2
      [] t = "3" -> 3
      [] t = "5" -> 5
      [] OTHER -> 0

\* float(t): the texts float() accepts besides IntTexts, with their value
FloatTexts == {"3.5", "3.500000000003", "4.0", "0.25", "60.0"}

FloatOf(t) ==
    CASE t = "3.5" -> FloatV(35000)
      [] t = "3.500000000003" -> FloatX(35000, 3)
      [] t = "4.0" -> FloatV(40000)
      [] t = "0.25" -> FloatV(2500)
      [] t = "60.0" -> FloatV(600000)
      [] OTHER -> FloatV(10000 * IntOf(t))

\* the texts holding the substring 'np.pi' or 'np.e', with eval's value
NpTexts == {"np.pi/2"}

PiHalf == FloatV(15708)

\* the number of matches of '-?\d+\.?\d*' in a text
NumCount(t) ==
    CASE t = "1.0 0.0 2.0" -> 3
      [] t \in IntTexts \cup FloatTexts -> 1
      [] t = "np.pi/2" -> 1
      [] t = "map struc > a: x -> 2*x" -> 1
      [] t = "map control > nplanes: x -> 2*x" -> 1
      [] OTHER -> 0

\* 'map' in t
ContainsMap(t) ==
    t \in {"map struc > a: x -> x", "map struc > b: x -> x",
           "map struc > a: x -> 2*x", "map control > nplanes: x -> 2*x",
           "map surface > angle: x -> x", "map control > max_x: x -> x",
           "remap: (ux, uy) -> ux", "remap: (ux, uy) -> uy", "heatmap.dat"}

NoMatch == [namelist |-> "", val |-> "", expr |-> ""]

\* re.search(map_form, t): the groups of the match, NoMatch for None
MapParse(t) ==
    CASE t = "map struc > a: x -> x" ->
            [namelist |-> "struc", val |-> "a", expr |-> "x"]
      [] t = "map struc > b: x -> x" ->
            [namelist |-> "struc", val |-> "b", expr |-> "x"]
      [] t = "map struc > a: x -> 2*x" ->
            [namelist |-> "struc", val |-> "a", expr |-> "2*x"]
      [] t = "map control > nplanes: x -> 2*x" ->
            [namelist |-> "control", val |-> "nplanes", expr |-> "2*x"]
      [] t = "map surface > angle: x -> x" ->
            [namelist |-> "surface", val |-> "angle", expr |-> "x"]
      [] t = "map control > max_x: x -> x" ->
            [namelist |-> "control", val |-> "max_x", expr |-> "x"]
      [] OTHER -> NoMatch

\* t.lower()
Lower(t) ==
    CASE t = "Edge" -> "edge"
      [] t = "GULP" -> "gulp"
      [] OTHER -> t

\* t in 'edge'
InEdge(t) == t \in {"", "e", "d", "g", "ed", "dg", "ge", "edg", "dge", "edge"}

\* str() of a float in Python 2 and the float read back from it: 12
\* significant digits are kept (every x of the model rounds down)
Str12(v) == [v EXCEPT !.x = 0]

---------------------------------------------------------------------------
(* The conversions of a card's text *)

VErr == [k |-> "ValueError", s |-> "", n |-> 0, x |-> 0]

\* to_bool
to_bool(t) ==
    CASE t = "True" -> BoolV(TRUE)
      [] t = "False" -> BoolV(FALSE)
      [] OTHER -> VErr

\* to_vector
to_vector(t) == VecV(NumCount(t))

\* new_type(text) for the types of the schema; VErr for a ValueError
Coerce(type, t) ==
    CASE type = "str" -> StrV(t)
      [] type = "int" -> IF t \in IntTexts THEN IntV(IntOf(t)) ELSE VErr
      [] type = "float" ->
            IF t \in IntTexts \cup FloatTexts THEN FloatOf(t)
            ELSE IF t = "nan" THEN NaN ELSE VErr
      [] type = "to_bool" -> to_bool(t)
      [] type = "to_vector" -> to_vector(t)
      [] OTHER -> CijObj

\* change_type: the value the card holds afterwards
change_type(v, type) ==
    IF Coerce(type, v.s) # VErr THEN Coerce(type, v.s)
    ELSE IF v.s \in NpTexts THEN PiHalf
    ELSE v

---------------------------------------------------------------------------
(* The schema of handle_pn_control *)

Card(name, default, type) == [name |-> name, default |-> default, type |-> type]

control_cards ==
    << Card("gsf_file", None, "str"),
       Card("output", StrV("pyDisPN.out"), "str"),
       Card("title_line", StrV("Peierls-Nabarro model"), "str"),
       Card("n_iter", IntV(1), "int"),
       Card("dimensions", IntV(2), "int"),
       Card("max_x", IntV(100), "int"),
       Card("n_funcs", NaN, "int"),
       Card("disl_type", StrV("edge"), "str"),
       Card("use_sym", BoolV(TRUE), "to_bool"),
       Card("plot", BoolV(FALSE), "to_bool"),
       Card("plot_name", StrV("pn_plot.tif"), "str"),
       Card("plot_both", BoolV(FALSE), "to_bool"),
       Card("record", BoolV(TRUE), "to_bool"),
       Card("nplanes", IntV(30), "int"),
       Card("noisy", BoolV(FALSE), "to_bool"),
       Card("parameters", VecV(0), "to_vector") >>

struc_cards ==
    << Card("a", None, "float"),
       Card("b", StrV("map struc > a: x -> x"), "float"),
       Card("burgers", StrV("map struc > a: x -> x"), "float"),
       Card("spacing", StrV("map struc > a: x -> x"), "float") >>

elast_cards ==
    << Card("bulk", None, "float"),
       Card("shear", None, "float"),
       Card("poisson", None, "float"),
       Card("k_parallel", None, "float"),
       Card("k_normal", NaN, "float"),
       Card("cij", None, "readCij"),
       Card("b_edge", VecV(3), "to_vector"),
       Card("b_screw", VecV(3), "to_vector"),
       Card("normal", VecV(3), "to_vector"),
       Card("in_gpa", BoolV(TRUE), "to_bool") >>

surf_cards ==
    << Card("x_length", StrV("map struc > a: x -> x"), "float"),
       Card("y_length", StrV("map struc > b: x -> x"), "float"),
       Card("angle", PiHalf, "float"),
       Card("map_ux", StrV("remap: (ux, uy) -> ux"), "str"),
       Card("map_uy", StrV("remap: (ux, uy) -> uy"), "str"),
       Card("gamma_shift", FloatV(0), "float"),
       Card("has_vacuum", BoolV(FALSE), "to_bool"),
       Card("do_fourier", BoolV(FALSE), "to_bool"),
       Card("fourier_N", IntV(2), "int") >>

prop_cards ==
    << Card("max_rho", BoolV(FALSE), "to_bool"),
       Card("width", BoolV(FALSE), "to_bool") >>

stress_cards ==
    << Card("calculate_stress", BoolV(TRUE), "to_bool"),
       Card("dtau", FloatV(5), "float"),
       Card("use_GPa", BoolV(TRUE), "to_bool"),
       Card("threshold", FloatV(5000), "float") >>

\* the list of valid namelists, in the order of the card lists
namelists == <<"control", "struc", "elast", "surface", "properties", "stress">>

Namelists == {namelists[i] : i \in 1..Len(namelists)}

Cards ==
    [control |-> control_cards, struc |-> struc_cards, elast |-> elast_cards,
     surface |-> surf_cards, properties |-> prop_cards,
     stress |-> stress_cards]

CardNames(nl) == {Cards[nl][i].name : i \in 1..Len(Cards[nl])}

\* the keys a namelist's dict may hold
DictKeys(nl) ==
    CardNames(nl) \cup (IF nl = "elast" THEN {"coefficients"} ELSE {})

EmptyDict(nl) == [c \in DictKeys(nl) |-> Missing]

---------------------------------------------------------------------------
(* from_mapping, change_or_map and the handling of one card *)

ExcV(name) == [k |-> name, s |-> "", n |-> 0, x |-> 0]

IsExc(v) == v.k \in {"ValueError", "NameError", "SyntaxError", "TypeError"}

\* eval of the text '{}'.format(v) puts in the place of the argument
EvalArg(v) ==
    CASE v.k = "float" -> IF v.s = "nan" THEN ExcV("NameError") ELSE Str12(v)
      [] v.k \in {"int", "bool", "None"} -> v
      [] v.k = "str" ->
            IF v.s \in IntTexts THEN IntV(IntOf(v.s))
            ELSE IF v.s \in FloatTexts THEN FloatOf(v.s)
            ELSE IF v.s \in {"True", "False"} THEN to_bool(v.s)
            ELSE IF v.s \in NpTexts THEN PiHalf
            ELSE IF v.s = "" THEN ExcV("SyntaxError")
            ELSE ExcV("NameError")
      [] OTHER -> ExcV("SyntaxError")

\* the value of (lambda VAR: EXPR)(a)
ApplyExpr(expr, a) ==
    CASE IsExc(a) -> a
      [] expr = "x" -> a
      [] expr = "2*x" ->
            IF a.k = "float" THEN FloatX(2 * a.n, 2 * a.x)
            ELSE IF a.k \in {"int", "bool"} THEN IntV(2 * a.n)
            ELSE ExcV("TypeError")
      [] OTHER -> ExcV("SyntaxError")

\* what a call returns: the exception raised ("none": it returned), the
\* card a mission-critical error names, the dict as the call left it and
\* the mapping evaluations it made
Ret(exc, card, top, log) == [exc |-> exc, card |-> card, top |-> top, log |-> log]

\* one evaluation of a mapping: the mapped card, the referenced card and
\* the value the referenced card held when it was looked up
MapEval(nl, card, m, seen, pos) ==
    [nl |-> nl, card |-> card, rnl |-> m.namelist, rcard |-> m.val,
     seen |-> seen, pos |-> pos]

from_mapping(top, keys, nl, card, pos) ==
    LET in_str == top[nl][card]
        found_map == MapParse(in_str.s)
    IN  IF in_str.k # "str" THEN Ret("TypeError", "", top, <<>>)
        ELSE IF found_map = NoMatch THEN Ret("AttributeError", "", top, <<>>)
        ELSE IF found_map.namelist \notin keys
                \/ found_map.val \notin DOMAIN top[found_map.namelist]
        THEN Ret("KeyError", "", top, <<>>)
        ELSE LET input_value == top[found_map.namelist][found_map.val]
                 val == ApplyExpr(found_map.expr, EvalArg(input_value))
                 log == <<MapEval(nl, card, found_map, input_value, pos)>>
             IN  IF input_value = Missing THEN Ret("KeyError", "", top, log)
                 ELSE IF IsExc(val) THEN Ret(val.k, "", top, log)
                 ELSE Ret("none", "", [top EXCEPT ![nl][card] = val], log)

\* a change_or_map that evaluates only the texts of the form of map_form
change_or_map_form(param_dict, keys, nl, card, new_type, pos) ==
    IF param_dict[nl][card] = Missing
    THEN Ret("ValueError", "", param_dict, <<>>)
    ELSE IF MapParse(param_dict[nl][card].s) # NoMatch
    THEN from_mapping(param_dict, keys, nl, card, pos)
    ELSE Ret("none", "",
             [param_dict EXCEPT ![nl][card] = change_type(@, new_type)], <<>>)

change_or_map(param_dict, keys, nl, card, new_type, pos) ==
    IF param_dict[nl][card] = Missing
    THEN Ret("ValueError", "", param_dict, <<>>)
    ELSE IF ContainsMap(param_dict[nl][card].s)
    THEN from_mapping(param_dict, keys, nl, card, pos)
    ELSE Ret("none", "",
             [param_dict EXCEPT ![nl][card] = change_type(@, new_type)], <<>>)

\* a test that takes no card for mission-critical
NeverMissionCritical(default_val) == FALSE

\* a default of None marks the card as mission-critical
IsMissionCritical(default_val) == default_val = None

\* lines 230-242: one card of a namelist other than elast
HandleVar(param_dict, keys, nl, var, pos) ==
    LET r == change_or_map(param_dict, keys, nl, var.name, var.type, pos)
        installed == [param_dict EXCEPT ![nl][var.name] = var.default]
    IN  IF r.exc # "ValueError" THEN r
        ELSE IF IsMissionCritical(var.default)
        THEN Ret("ValueError", var.name, param_dict, <<>>)
        ELSE IF var.default.k = "str" /\ ContainsMap(var.default.s)
        THEN from_mapping(installed, keys, nl, var.name, pos)
        ELSE Ret("none", "", installed, <<>>)

\* lines 246-249: one card of the elast namelist
HandleElastVar(param_dict, keys, var, pos) ==
    LET r == change_or_map(param_dict, keys, "elast", var.name, var.type, pos)
    IN  IF r.exc # "ValueError" THEN r
        ELSE Ret("none", "",
                 [param_dict EXCEPT !["elast"][var.name] = var.default], <<>>)

\* the test of lines 254-269 with cij tested before k_parallel
ElastModeAnisoFirst(elast) ==
    IF elast["cij"] # None THEN "aniso"
    ELSE IF elast["k_parallel"] # None THEN "specific"
    ELSE IF elast["shear"] # None
    THEN IF elast["poisson"] # None THEN "iso_nu"
         ELSE IF elast["bulk"] # None THEN "iso_bulk"
         ELSE ""
    ELSE ""

\* the test of lines 254-269 falling back on iso_bulk instead of raising
ElastModeFallback(elast) ==
    IF elast["k_parallel"] # None THEN "specific"
    ELSE IF elast["cij"] # None THEN "aniso"
    ELSE IF elast["shear"] # None /\ elast["poisson"] # None THEN "iso_nu"
    ELSE "iso_bulk"

\* lines 254-269: the mode recorded in elast.coefficients, "" when the
\* AttributeError is raised
ElastMode(elast) ==
    IF elast["k_parallel"] # None THEN "specific"
    ELSE IF elast["cij"] # None THEN "aniso"
    ELSE IF elast["shear"] # None
    THEN IF elast["poisson"] # None THEN "iso_nu"
         ELSE IF elast["bulk"] # None THEN "iso_bulk"
         ELSE ""
    ELSE ""

---------------------------------------------------------------------------
(* PNSim.__init__: control_file and handle_pn_control *)

NoErr == [type |-> "none", msg |-> "", card |-> ""]

Error(type, msg, card) == [type |-> type, msg |-> msg, card |-> card]

\* the message of the exception a call of Ret's shape raised
MsgOf(r) ==
    IF r.exc = "ValueError" /\ r.card # ""
    THEN "No value supplied for mission-critical variable"
    ELSE ""

\* the stages of PNSim.__init__, in the order of its statements
StageOrder ==
    <<"Resolve", "ConstructSurface", "Relax", "PostProcess", "Stress", "Report">>

\* the statement that follows a stage that returned
PcAfter(stage) ==
    CASE stage = "Resolve" -> "construct_gsf"
      [] stage = "ConstructSurface" -> "run_sim"
      [] stage = "Relax" -> "post_processing"
      [] stage = "PostProcess" -> "peierls"
      [] stage = "Stress" -> "write_output"
      [] OTHER -> "done"

\* a constructor that would catch the exception of a stage and go on
PcRaisedGoesOn(stage) == PcAfter(stage)

\* an exception is caught nowhere: it ends the run
PcRaised(stage) == "failed"

Pos == [pc |-> pc, nli |-> nli, ci |-> ci]

\* control_file: the dict of the namelists and cards the file holds
ControlFile ==
    /\ pc = "control_file"
    /\ sim' = [nl \in Namelists |->
                 [c \in DictKeys(nl) |->
                    IF c \in DOMAIN file[nl] /\ file[nl][c] # Absent
                    THEN StrV(file[nl][c]) ELSE Missing]]
    /\ simKeys' = {nl \in Namelists :
                     \E c \in DOMAIN file[nl] : file[nl][c] # Absent}
    /\ started' = Append(started, "Resolve")
    /\ pc' = "add_namelists"
    /\ UNCHANGED <<file, nli, ci, err, self, calls, returned, streams,
                   report, mapLog, gr>>

\* lines 214-219: every valid namelist becomes a key
AddNamelists ==
    /\ pc = "add_namelists"
    /\ simKeys' = simKeys \cup Namelists
    /\ pc' = "cards"
    /\ nli' = 1
    /\ ci' = 1
    /\ UNCHANGED <<file, sim, err, self, calls, started, returned, streams,
                   report, mapLog, gr>>

\* line 225-227: the elast namelist is handled later
SkipElast ==
    /\ pc = "cards"
    /\ namelists[nli] = "elast"
    /\ nli' = nli + 1
    /\ ci' = 1
    /\ UNCHANGED <<file, sim, simKeys, pc, err, self, calls, started,
                   returned, streams, report, mapLog, gr>>

\* lines 229-242: one card of the namelist at nli
HandleCard ==
    /\ pc = "cards"
    /\ namelists[nli] # "elast"
    /\ LET nl == namelists[nli]
           r == HandleVar(sim, simKeys, nl, Cards[nl][ci], Pos)
       IN  /\ sim' = r.top
           /\ mapLog' = mapLog \o r.log
           /\ IF r.exc # "none"
              THEN /\ err' = Error(r.exc, MsgOf(r), r.card)
                   /\ pc' = PcRaised("Resolve")
                   /\ UNCHANGED <<nli, ci>>
              ELSE /\ err' = err
                   /\ IF ci < Len(Cards[nl])
                      THEN /\ ci' = ci + 1
                           /\ UNCHANGED <<pc, nli>>
                      ELSE /\ ci' = 1
                           /\ nli' = nli + 1
                           /\ pc' = IF nli < Len(namelists)
                                    THEN pc ELSE "elast_cards"
    /\ UNCHANGED <<file, simKeys, self, calls, started, returned, streams,
                   report, gr>>

\* lines 245-249: one card of the elast namelist
ElastCard ==
    /\ pc = "elast_cards"
    /\ LET r == HandleElastVar(sim, simKeys, Cards["elast"][ci], Pos)
       IN  /\ sim' = r.top
           /\ mapLog' = mapLog \o r.log
           /\ IF r.exc # "none"
              THEN /\ err' = Error(r.exc, MsgOf(r), r.card)
                   /\ pc' = PcRaised("Resolve")
                   /\ UNCHANGED <<nli, ci>>
              ELSE /\ err' = err
                   /\ IF ci < Len(Cards["elast"])
                      THEN ci' = ci + 1 /\ pc' = pc /\ nli' = nli
                      ELSE ci' = 1 /\ pc' = "elast_test" /\ nli' = nli + 1
    /\ UNCHANGED <<file, simKeys, self, calls, started, returned,
                   streams, report, gr>>

\* lines 254-269: the elasticity mode, or the AttributeError
ElastTest ==
    /\ pc = "elast_test"
    /\ LET mode == ElastMode(sim["elast"])
       IN  IF mode = ""
           THEN /\ err' = Error("AttributeError",
                                "No elastic properties have been provided.", "")
                /\ pc' = PcRaised("Resolve")
                /\ sim' = sim
           ELSE /\ sim' = [sim EXCEPT !["elast"]["coefficients"] = StrV(mode)]
                /\ pc' = "coefficients"
                /\ err' = err
    /\ UNCHANGED <<file, simKeys, nli, ci, self, calls, started, returned,
                   streams, report, mapLog, gr>>

---------------------------------------------------------------------------
(* PNSim.__init__: the energy coefficients and the stages that follow *)

\* lines 300-305: the accessors of the namelists
control(card) == sim["control"][card]
struc(card) == sim["struc"][card]
elast(card) == sim["elast"][card]
surf(card) == sim["surface"][card]
prop(card) == sim["properties"][card]
stress(card) == sim["stress"][card]

\* a comparison that takes every larger number for i
PyEqAtLeast(v, i) == v.k \in {"int", "bool"} /\ v.n >= i

\* v == i of Python, i an int
PyEq(v, i) ==
    \/ v.k \in {"int", "bool"} /\ v.n = i
    \/ v.k = "float" /\ v.s = "" /\ v.n = 10000 * i /\ v.x = 0

IsNum(v) == v.k \in {"int", "float", "bool"}

\* a call of an external function, with the arguments the model follows
Call(f, a, b) == [f |-> f, a |-> a, b |-> b]

Attrs ==
    {"K", "K_store", "gsf", "units", "E", "par", "ux", "uy", "rho",
     "dis_width", "max_density", "taup", "taup_av", "wp", "wp_av"}

\* a call of the coefficient function that leaves k_normal out
CoeffCallParallelOnly(mode) ==
    Call("coeff.predefined", elast("k_parallel"), None)

\* lines 308-323: the coefficient function of the recorded mode
CoeffCall(mode) ==
    CASE mode = "specific" ->
            Call("coeff.predefined", elast("k_parallel"), elast("k_normal"))
      [] mode = "aniso" -> Call("coeff.anisotropic_K", elast("cij"), None)
      [] mode = "iso_nu" ->
            Call("coeff.isotropic_nu", elast("poisson"), elast("shear"))
      [] OTHER -> Call("coeff.isotropic_K", elast("bulk"), elast("shear"))

CoeffModes == {"specific", "aniso", "iso_nu", "iso_bulk"}

\* a stage ends: it returned, or it raised e
EndStage(stage, e) ==
    /\ err' = e
    /\ IF e = NoErr
       THEN /\ returned' = Append(returned, stage)
            /\ pc' = PcAfter(stage)
       ELSE /\ returned' = returned
            /\ pc' = PcRaised(stage)

External == Error("ExternalError", "", "")

\* a selection that takes the screw coefficient whatever the type
KAlwaysScrew(disl_type) == "K[1]"

\* lines 331-335: the coefficient of a 1D run
KOneDim(disl_type) == IF Lower(disl_type) = "edge" THEN "K[0]" ELSE "K[1]"

\* lines 307-335
Coefficients ==
    /\ pc = "coefficients"
    /\ \E ok \in BOOLEAN :
         LET mode == elast("coefficients").s
             one == PyEq(control("dimensions"), 1)
             disl == control("disl_type")
         IN  /\ calls' = IF mode \in CoeffModes
                         THEN Append(calls, CoeffCall(mode)) ELSE calls
             /\ IF mode \in CoeffModes /\ ~ok
                THEN self' = self /\ EndStage("Resolve", External)
                ELSE IF mode \notin CoeffModes
                THEN self' = self
                     /\ EndStage("Resolve",
                                 IF one THEN Error("AttributeError", "K", "")
                                 ELSE NoErr)
                ELSE IF ~one
                THEN self' = [self EXCEPT !["K"] = "pair"]
                     /\ EndStage("Resolve", NoErr)
                ELSE IF disl.k # "str"
                THEN self' = [self EXCEPT !["K"] = "pair", !["K_store"] = "pair"]
                     /\ EndStage("Resolve", Error("AttributeError", "lower", ""))
                ELSE self' = [self EXCEPT
                                !["K_store"] = "pair",
                                !["K"] = KOneDim(disl.s)]
                     /\ EndStage("Resolve", NoErr)
    /\ UNCHANGED <<file, sim, simKeys, nli, ci, started, streams, report,
                   mapLog, gr>>

\* a test that takes every grid of three columns or more for a surface
GsfKindAtLeast(n_columns) ==
    IF n_columns = 2 THEN "line"
    ELSE IF n_columns >= 3 THEN "surface"
    ELSE "invalid"

\* line 421-474: what the column count of the raw grid selects
GsfKind(n_columns) ==
    IF n_columns = 2 THEN "line"
    ELSE IF n_columns = 3 THEN "surface"
    ELSE "invalid"

\* the largest column count of a raw grid
MaxColumns == 4

\* lines 422-474: the calls construct_gsf makes after reading the grid,
\* the exception it raises by itself and whether it sets self.gsf
GsfPlan(n_columns) ==
    LET kind == GsfKind(n_columns)
        dims == control("dimensions")
        disl == control("disl_type")
        fit2 == <<Call("fg.spline_fit2d", None, None),
                  Call("fg.new_gsf", surf("map_ux"), surf("map_uy"))>>
        axis == IF disl = StrV("edge") THEN 0 ELSE 1
        last == IF Truthy(surf("do_fourier"))
                THEN <<Call("fg.gline_fourier", None, None)>> ELSE <<>>
    IN  CASE kind = "line" ->
               [calls |-> <<Call("fg.spline_fit1d", None, None)>>,
                exc |-> NoErr, gsf |-> "set"]
          [] kind = "surface" /\ PyEq(dims, 2) ->
               [calls |-> fit2, exc |-> NoErr, gsf |-> "set"]
          [] kind = "surface" /\ ~PyEq(dims, 2) /\ PyEq(dims, 1) ->
               IF disl \in {StrV("edge"), StrV("screw")}
               THEN [calls |-> fit2 \o <<Call("fg.projection", IntV(axis), None)>>
                                \o last,
                     exc |-> NoErr, gsf |-> "set"]
               ELSE [calls |-> fit2,
                     exc |-> Error("UnboundLocalError", "use_axis", ""),
                     gsf |-> "unset"]
          [] kind = "surface" /\ ~PyEq(dims, 2) /\ ~PyEq(dims, 1) ->
               [calls |-> <<>>, exc |-> NoErr, gsf |-> "unset"]
          [] OTHER ->
               [calls |-> <<>>,
                exc |-> Error("ValueError",
                              "GSF grid has invalid number of dimensions", ""),
                gsf |-> "unset"]

\* lines 415-476.  The grid read has n_columns columns, logged with the
\* call that returned it; the external call number failing raises (0: every
\* call returns)
ConstructGsf ==
    /\ pc = "construct_gsf"
    /\ started' = Append(started, "ConstructSurface")
    /\ \E n_columns \in 1..MaxColumns :
         LET plan == GsfPlan(n_columns)
             read == Call("fg.read_numerical_gsf", control("gsf_file"),
                          IntV(n_columns))
             all == <<read>> \o plan.calls
         IN  \E failing \in 0..Len(all) :
               IF failing = 1
               THEN /\ calls' = Append(calls, [read EXCEPT !.b = None])
                    /\ self' = self
                    /\ EndStage("ConstructSurface", External)
               ELSE IF failing > 0
               THEN /\ calls' = calls \o SubSeq(all, 1, failing)
                    /\ self' = IF failing > 1
                               THEN [self EXCEPT !["units"] = "set"] ELSE self
                    /\ EndStage("ConstructSurface", External)
               ELSE /\ calls' = calls \o all
                    /\ self' = [self EXCEPT !["units"] = "set",
                                            !["gsf"] = plan.gsf]
                    /\ EndStage("ConstructSurface", plan.exc)
    /\ UNCHANGED <<file, sim, simKeys, nli, ci, streams, report, mapLog, gr>>

\* a run_sim that takes the iteration count of the card in every case
NiterOfCard(given) == control("n_iter")

\* lines 374-382: niter
Niter(given) == IF given.n # 0 THEN IntV(1) ELSE control("n_iter")

\* lines 368-413
RunSim ==
    /\ pc = "run_sim"
    /\ started' = Append(started, "Relax")
    /\ \E ok \in BOOLEAN :
         LET given == control("parameters")
             inpar == IF given.n # 0 THEN given ELSE None
             niter == Niter(given)
             dims == control("dimensions")
             fitter == IF PyEq(dims, 1) THEN "pn1.run_monte1d"
                       ELSE IF PyEq(dims, 2) THEN "pn2.run_monte2d" ELSE ""
         IN  IF given.k # "vec"
             THEN /\ UNCHANGED <<calls, self>>
                  /\ EndStage("Relax", Error("TypeError", "len", ""))
             ELSE IF fitter = ""
             THEN /\ ok
                  /\ UNCHANGED <<calls, self>>
                  /\ EndStage("Relax", NoErr)
             ELSE /\ calls' = Append(calls, Call(fitter, niter, inpar))
                  /\ IF ok
                     THEN /\ self' = [self EXCEPT !["E"] = "set", !["par"] = "set"]
                          /\ EndStage("Relax", NoErr)
                     ELSE /\ self' = self
                          /\ EndStage("Relax", External)
    /\ UNCHANGED <<file, sim, simKeys, nli, ci, streams, report, mapLog, gr>>

\* the streams post_processing and write_output open
Streams == {"disreg", "rho", "report"}

\* lines 478-587.  fail: the external call that raises is one made before
\* the streams are closed ("early"), one made after ("late"), or none
post_processing(fail) ==
    LET rec == Truthy(control("record"))
        dims == control("dimensions")
        disl == control("disl_type")
        one == PyEq(dims, 1)
        two == ~one /\ PyEq(dims, 2)
        opened == IF rec
                  THEN [streams EXCEPT !["disreg"] = "open", !["rho"] = "open"]
                  ELSE streams
        closed == IF rec /\ (one \/ two)
                  THEN [streams EXCEPT !["disreg"] = "closed", !["rho"] = "closed"]
                  ELSE opened
        get_u == IF one THEN <<Call("pn1.get_u1d", None, None)>>
                 ELSE IF two THEN <<Call("pn2.get_u2d", None, None)>>
                 ELSE <<>>
        self1 == IF one THEN [self EXCEPT !["ux"] = "set"]
                 ELSE IF two THEN [self EXCEPT !["ux"] = "set", !["uy"] = "set"]
                 ELSE self
        \* the displacement the plot and the density read
        plotted == IF one THEN <<"ux">>
                   ELSE IF Truthy(control("plot_both")) THEN <<"ux", "uy">>
                   ELSE IF InEdge(disl.s) THEN <<"ux">> ELSE <<"uy">>
        plots == IF Truthy(control("plot"))
                 THEN [i \in 1..Len(plotted) |->
                         Call("pn1.plot_both", StrV(plotted[i]), None)]
                 ELSE <<>>
        used == IF InEdge(disl.s) \/ one THEN "ux" ELSE "uy"
        late == plots \o <<Call("pn1.rho", StrV(used), None),
                           Call("pn1.dislocation_width", None, None),
                           Call("pn1.max_rho", None, None)>>
        out(st, se, cs, e) == [streams |-> st, self |-> se, calls |-> cs, exc |-> e]
    IN  IF ~(Truthy(control("plot")) \/ Truthy(prop("max_rho"))
             \/ Truthy(prop("width")) \/ rec)
        THEN out(streams, self, <<>>, NoErr)
        ELSE IF ~IsNum(struc("spacing")) \/ ~IsNum(control("max_x"))
        THEN out(opened, self, <<>>, Error("TypeError", "r", ""))
        ELSE IF (one \/ two) /\ self["par"] = "unset"
        THEN out(opened, self, <<>>, Error("AttributeError", "par", ""))
        ELSE IF (one \/ two) /\ fail = "early"
        THEN out(opened, self, get_u, External)
        ELSE IF disl.k # "str"
        THEN out(closed, self1, get_u, Error("TypeError", "in", ""))
        ELSE IF self1[used] = "unset"
                \/ \E i \in 1..Len(plots) : self1[plots[i].a.s] = "unset"
        THEN out(closed, self1, get_u, Error("AttributeError", used, ""))
        ELSE IF fail = "late"
        THEN out(closed, self1, get_u \o SubSeq(late, 1, 1), External)
        ELSE out(closed,
                 [self1 EXCEPT !["rho"] = "set", !["dis_width"] = "set",
                               !["max_density"] = "set"],
                 get_u \o late, NoErr)

PostProcessing ==
    /\ pc = "post_processing"
    /\ started' = Append(started, "PostProcess")
    /\ \E fail \in {"none", "early", "late"} :
         LET r == post_processing(fail)
         IN  /\ fail # "none" => r.exc = External
             /\ streams' = r.streams
             /\ self' = r.self
             /\ calls' = calls \o r.calls
             /\ EndStage("PostProcess", r.exc)
    /\ UNCHANGED <<file, sim, simKeys, nli, ci, report, mapLog, gr>>

\* a peierls that asks for the stress whatever the card says
StressAlways == TRUE

\* line 593: the Peierls stress is calculated
StressWanted == Truthy(stress("calculate_stress"))

\* lines 589-618
Peierls ==
    /\ pc = "peierls"
    /\ started' = Append(started, "Stress")
    /\ \E ok \in BOOLEAN :
         IF ~StressWanted
         THEN /\ ok
              /\ UNCHANGED <<calls, self>>
              /\ EndStage("Stress", NoErr)
         ELSE IF self["par"] = "unset" \/ self["gsf"] = "unset"
         THEN /\ ok
              /\ UNCHANGED <<calls, self>>
              /\ EndStage("Stress",
                          Error("AttributeError",
                                IF self["par"] = "unset" THEN "par" ELSE "gsf",
                                ""))
         ELSE IF ~ok
         THEN /\ calls' = Append(calls, Call("pb.taup", None, None))
              /\ self' = self
              /\ EndStage("Stress", External)
         ELSE /\ calls' = calls \o <<Call("pb.taup", None, None),
                                     Call("pb.peierls_barrier", None, None)>>
              /\ self' = [self EXCEPT !["taup"] = "set", !["taup_av"] = "set",
                                      !["wp"] = "set", !["wp_av"] = "set"]
              /\ EndStage("Stress", NoErr)
    /\ UNCHANGED <<file, sim, simKeys, nli, ci, streams, report, mapLog, gr>>

\* lines 620-745: the sections written and the exception raised
write_output ==
    LET dims == control("dimensions")
        two == PyEq(dims, 2)
        one == ~two /\ PyEq(dims, 1)
        front == <<"front matter", "parameters">>
        coeffs == IF two THEN <<"K">> ELSE <<"K_store">>
        fit == <<"fit parameters">>
        energy == <<"E">>
        taus == IF StressWanted THEN <<"stress", "barrier">> ELSE <<>>
        dens == IF Truthy(prop("max_rho")) THEN <<"max density">> ELSE <<>>
        wid == IF Truthy(prop("width")) THEN <<"width">> ELSE <<>>
        out(secs, e) == [report |-> secs, exc |-> e]
    IN  IF ~IsNum(struc("burgers")) \/ ~IsNum(struc("spacing"))
        THEN out(<<"front matter">>, Error("ValueError", "format", ""))
        ELSE IF ~IsNum(control("max_x"))
        THEN out(<<"front matter">>, Error("TypeError", "max_x", ""))
        ELSE IF ~two /\ self["K_store"] = "unset"
        THEN out(front, Error("AttributeError", "K_store", ""))
        ELSE IF self["par"] = "unset"
        THEN out(front \o coeffs, Error("AttributeError", "par", ""))
        ELSE IF self["E"] = "unset"
        THEN out(front \o coeffs \o fit, Error("AttributeError", "E", ""))
        ELSE IF StressWanted /\ self["taup"] = "unset"
        THEN out(front \o coeffs \o fit \o energy,
                 Error("AttributeError", "taup", ""))
        ELSE IF Truthy(prop("max_rho")) /\ self["max_density"] = "unset"
        THEN out(front \o coeffs \o fit \o energy \o taus,
                 Error("AttributeError", "max_density", ""))
        ELSE IF Truthy(prop("width")) /\ self["dis_width"] = "unset"
        THEN out(front \o coeffs \o fit \o energy \o taus \o dens,
                 Error("AttributeError", "dis_width", ""))
        ELSE out(front \o coeffs \o fit \o energy \o taus \o dens \o wid
                   \o <<"Finished">>, NoErr)

WriteOutput ==
    /\ pc = "write_output"
    /\ started' = Append(started, "Report")
    /\ \E opens \in BOOLEAN :
         IF ~opens
         THEN /\ UNCHANGED <<streams, report>>
              /\ EndStage("Report", Error("IOError", "open", ""))
         ELSE LET r == write_output
              IN  /\ report' = r.report
                  /\ streams' = [streams EXCEPT !["report"] =
                                   IF r.exc = NoErr THEN "closed" ELSE "open"]
                  /\ EndStage("Report", r.exc)
    /\ UNCHANGED <<file, sim, simKeys, nli, ci, self, calls, mapLog, gr>>

---------------------------------------------------------------------------
(* The control files of the model *)

\* the file that supplies no card
NoFile == [nl \in Namelists |-> [c \in CardNames(nl) |-> Absent]]

\* a file with the cards of a patch, a set of <<namelist, card, text>>
Patched(f, patch) ==
    [nl \in Namelists |->
       [c \in CardNames(nl) |->
          IF \E t \in patch : t[1] = nl /\ t[2] = c
          THEN (CHOOSE t \in patch : t[1] = nl /\ t[2] = c)[3]
          ELSE f[nl][c]]]

\* the files that take one patch of each set of a sequence of sets
RECURSIVE FilesFrom(_, _)
FilesFrom(options, i) ==
    IF i > Len(options) THEN {NoFile}
    ELSE {Patched(f, patch) : f \in FilesFrom(options, i + 1),
                              patch \in options[i]}

\* a card left out, or given one of some texts
Given(nl, card, texts) == {{}} \cup {{<<nl, card, t>>} : t \in texts}

\* the &surface block: left out, or naming the two displacement maps
SurfaceBlocks ==
    { {}, {<<"surface", "map_ux", "ux">>, <<"surface", "map_uy", "uy">>} }

\* the control files of Spec: the cards the stages branch on
PipelineOptions ==
    << Given("control", "gsf_file", {"gsf.dat"}),
       Given("control", "dimensions", {"1", "3"}),
       Given("control", "disl_type", {"screw", "Edge"}),
       Given("control", "parameters", {"1.0 0.0 2.0"}),
       Given("control", "n_iter", {"5"}),
       Given("struc", "a", {"3.5"}),
       Given("elast", "bulk", {"60.0"}),
       Given("elast", "shear", {"4.0"}),
       Given("elast", "poisson", {"0.25"}),
       Given("elast", "k_parallel", {"3.5"}),
       Given("elast", "cij", {"cij.dat"}),
       SurfaceBlocks,
       Given("stress", "calculate_stress", {"False"}) >>

\* the control files of SpecResolve: the texts the resolver branches on
ResolveOptions ==
    << Given("control", "gsf_file", {"gsf.dat", "heatmap.dat"}),
       Given("control", "n_iter", {"abc"}),
       Given("control", "plot", {"maybe"}),
       Given("control", "max_x", {"map control > nplanes: x -> 2*x"}),
       Given("control", "nplanes", {"3"}),
       Given("struc", "a", {"3.5", "abc", "3.500000000003"}),
       Given("struc", "b", {"4.0", "map struc > a: x -> 2*x"}),
       { {}, {<<"elast", "k_parallel", "3.5">>},
         {<<"elast", "shear", "4.0">>, <<"elast", "poisson", "0.25">>} },
       SurfaceBlocks
         \cup { {<<"surface", "map_ux", "ux">>, <<"surface", "map_uy", "uy">>,
                 <<"surface", "x_length", "map struc > b: x -> x">>},
                {<<"surface", "map_ux", "remap: (ux, uy) -> ux">>,
                 <<"surface", "map_uy", "remap: (ux, uy) -> uy">>} },
       Given("properties", "max_rho", {"True"}),
       Given("stress", "calculate_stress", {"False"}) >>

GrIdle == [pc |-> "idle"]

InitPN ==
    /\ sim = [nl \in Namelists |-> EmptyDict(nl)]
    /\ simKeys = {}
    /\ pc = "control_file"
    /\ nli = 1
    /\ ci = 1
    /\ err = NoErr
    /\ self = [a \in Attrs |-> "unset"]
    /\ calls = <<>>
    /\ started = <<>>
    /\ returned = <<>>
    /\ streams = [st \in Streams |-> "unopened"]
    /\ report = <<>>
    /\ mapLog = <<>>

Init ==
    /\ file \in FilesFrom(PipelineOptions, 1)
    /\ InitPN
    /\ gr = GrIdle

InitResolve ==
    /\ file \in FilesFrom(ResolveOptions, 1)
    /\ InitPN
    /\ gr = GrIdle

Next ==
    \/ ControlFile
    \/ AddNamelists
    \/ SkipElast
    \/ HandleCard
    \/ ElastCard
    \/ ElastTest
    \/ Coefficients
    \/ ConstructGsf
    \/ RunSim
    \/ PostProcessing
    \/ Peierls
    \/ WriteOutput

Spec == Init /\ [][Next]_vars

SpecResolve == InitResolve /\ [][Next]_vars

---------------------------------------------------------------------------
(* Properties of PNSim.__init__ *)

IsPrefix(s, t) == Len(s) <= Len(t) /\ s = SubSeq(t, 1, Len(s))

\* C1: the constructor starts its stages in the order Resolve,
\* ConstructSurface, Relax, PostProcess, Stress, Report, each once and only
\* after the stage before it returned; a stage that raises ends the run:
\* the stage does not return, no stage is started after it and no step is
\* taken any more; the run is done only when all six stages returned.
C1_StagesInOrder ==
    /\ [](/\ IsPrefix(started, StageOrder)
          /\ IsPrefix(returned, StageOrder)
          /\ Len(returned) <= Len(started)
          /\ Len(started) <= Len(returned) + 1
          /\ (err # NoErr) = (pc = "failed")
          /\ pc = "failed" => Len(started) = Len(returned) + 1
          /\ pc = "done" => returned = StageOrder)
    /\ [][pc # "failed"]_vars

\* the run ended in Relax: two stages returned, the third raised
C1_Witness ==
    /\ pc = "failed"
    /\ err # NoErr
    /\ started = <<"Resolve", "ConstructSurface", "Relax">>
    /\ returned = <<"Resolve", "ConstructSurface">>

\* the elast card is given in the control file
Present(card) == file["elast"][card] # Absent

\* the first mode, in the order specific, aniso, iso_nu, iso_bulk, whose
\* inputs the control file gives; "" when it gives those of no mode
PriorityMode ==
    IF Present("k_parallel") THEN "specific"
    ELSE IF Present("cij") THEN "aniso"
    ELSE IF Present("shear") /\ Present("poisson") THEN "iso_nu"
    ELSE IF Present("shear") /\ Present("bulk") THEN "iso_bulk"
    ELSE ""

CoeffFunctions ==
    {"coeff.predefined", "coeff.anisotropic_K", "coeff.isotropic_nu",
     "coeff.isotropic_K"}

CoeffFunctionOf(mode) ==
    CASE mode = "specific" -> "coeff.predefined"
      [] mode = "aniso" -> "coeff.anisotropic_K"
      [] mode = "iso_nu" -> "coeff.isotropic_nu"
      [] mode = "iso_bulk" -> "coeff.isotropic_K"
      [] OTHER -> ""

CoeffCalls == {k \in 1..Len(calls) : calls[k].f \in CoeffFunctions}

\* handle_pn_control is past its elasticity test
PastElastTest == nli = Len(namelists) + 2 /\ pc # "elast_test"

\* C2: when the control file gives the inputs of several elasticity modes,
\* the mode recorded in elast.coefficients is the first of specific, aniso,
\* iso_nu, iso_bulk whose inputs are given; it is recorded as soon as the
\* elasticity test is passed, and the only coefficient function ever called
\* is the one of that mode, called once.
C2_ModePriority ==
    PriorityMode # "" =>
      /\ elast("coefficients") \in {Missing, StrV(PriorityMode)}
      /\ PastElastTest => elast("coefficients") = StrV(PriorityMode)
      /\ \A k \in CoeffCalls : calls[k].f = CoeffFunctionOf(PriorityMode)
      /\ Cardinality(CoeffCalls) <= 1
      /\ "Resolve" \in {returned[k] : k \in 1..Len(returned)}
            => Cardinality(CoeffCalls) = 1

\* k_parallel and cij are both given: specific is recorded, and predefined
\* was called
C2_Witness ==
    /\ Present("k_parallel")
    /\ Present("cij")
    /\ Present("shear")
    /\ Present("poisson")
    /\ elast("coefficients") = StrV("specific")
    /\ \E k \in CoeffCalls : calls[k].f = "coeff.predefined"
    /\ Len(returned) >= 1

\* C3: when the control file gives the inputs of no elasticity mode, the
\* elasticity test of handle_pn_control raises the AttributeError "No
\* elastic properties have been provided."; elast.coefficients is never
\* set, no coefficient function is called, Resolve does not return and no
\* later stage is started.
C3_NoElasticProperties ==
    PriorityMode = "" =>
      /\ elast("coefficients") = Missing
      /\ CoeffCalls = {}
      /\ returned = <<>>
      /\ Len(started) <= 1
      /\ PastElastTest =>
            /\ pc = "failed"
            /\ err = Error("AttributeError",
                           "No elastic properties have been provided.", "")

\* shear alone is given, and the test raised
C3_Witness ==
    /\ PriorityMode = ""
    /\ Present("shear")
    /\ PastElastTest
    /\ pc = "failed"
    /\ err.msg = "No elastic properties have been provided."
    /\ started = <<"Resolve">>

FitFunctions ==
    {"fg.spline_fit1d", "fg.spline_fit2d", "fg.new_gsf", "fg.projection",
     "fg.gline_fourier"}

\* the calls of fg.read_numerical_gsf that returned a grid
GridReads ==
    {k \in 1..Len(calls) :
       calls[k].f = "fg.read_numerical_gsf" /\ calls[k].b # None}

\* C4: when the grid read by construct_gsf has a number of columns other
\* than 2 and 3, construct_gsf raises the ValueError "GSF grid has invalid
\* number of dimensions": no spline fit, Fourier fit, remap or projection is
\* called, no call at all follows the read, self.gsf is not set and Relax
\* is not started.
C4_InvalidGrid ==
    \A k \in GridReads :
      calls[k].b.n \notin {2, 3} =>
        /\ pc = "failed"
        /\ err = Error("ValueError",
                       "GSF grid has invalid number of dimensions", "")
        /\ k = Len(calls)
        /\ \A j \in 1..Len(calls) : calls[j].f \notin FitFunctions
        /\ self["gsf"] = "unset"
        /\ started = <<"Resolve", "ConstructSurface">>
        /\ returned = <<"Resolve">>

\* a grid of four columns was read and the error raised
C4_Witness ==
    /\ \E k \in GridReads : calls[k].b = IntV(4)
    /\ err.msg = "GSF grid has invalid number of dimensions"
    /\ pc = "failed"

---------------------------------------------------------------------------
(* Properties of handle_pn_control *)

\* the turn of a namelist in handle_pn_control: elast comes last
OrderOf(nl) ==
    IF nl = "elast" THEN Len(namelists) + 1
    ELSE CHOOSE k \in 1..Len(namelists) : namelists[k] = nl

\* card k of namelist nl was handled without raising
Handled(nl, k) == OrderOf(nl) < nli \/ (OrderOf(nl) = nli /\ k < ci)

\* card k of namelist nl is the card being handled, or the one that raised
AtCard(nl, k) ==
    pc \in {"cards", "elast_cards", "failed"} /\ OrderOf(nl) = nli /\ k = ci

\* handle_pn_control returned
Resolved == elast("coefficients") # Missing

\* the control file gives no value for the card
NotGiven(nl, var) == file[nl][var.name] = Absent

MissionCriticalError(var) ==
    Error("ValueError", "No value supplied for mission-critical variable",
          var.name)

Omits(nl) == \A c \in CardNames(nl) : file[nl][c] = Absent

\* the control file gives every card whose default is None
MissionCriticalGiven ==
    \A nl \in Namelists : \A k \in 1..Len(Cards[nl]) :
      Cards[nl][k].default = None => ~NotGiven(nl, Cards[nl][k])

IsMappingDefault(var) == var.default.k = "str" /\ ContainsMap(var.default.s)

\* C6 as stated: when the control file omits surface, properties or stress
\* and gives the cards with default None, handle_pn_control raises nothing,
\* and once it returned the omitted namelist is a key of the tree whose
\* cards hold their defaults, a default that is a mapping being replaced by
\* a value.
C6_AsStated ==
    \A nl \in {"surface", "properties", "stress"} :
      (Omits(nl) /\ MissionCriticalGiven) =>
        /\ pc = "failed" => Resolved
        /\ Resolved =>
              /\ nl \in simKeys
              /\ \A k \in 1..Len(Cards[nl]) :
                    LET var == Cards[nl][k]
                        val == sim[nl][var.name]
                    IN  IF IsMappingDefault(var)
                        THEN val \notin {Missing, None, var.default}
                        ELSE val = var.default

\* card k of namelist nl had been handled at the position pos
HandledAt(pos, nl, k) ==
    OrderOf(nl) < pos.nli \/ (OrderOf(nl) = pos.nli /\ k < pos.ci)

\* the control file gives card var a literal, not a mapping
GivenLiteral(nl, var) ==
    ~NotGiven(nl, var) /\ ~ContainsMap(file[nl][var.name])

\* C7 as stated: at every evaluation of a mapping, every card the control
\* file gives as a literal has already been coerced, and the referenced
\* card has already been resolved and holds a value.
C7_AsStated ==
    \A j \in 1..Len(mapLog) :
      LET e == mapLog[j]
      IN  /\ \A nl \in Namelists : \A k \in 1..Len(Cards[nl]) :
                GivenLiteral(nl, Cards[nl][k]) => HandledAt(e.pos, nl, k)
          /\ e.seen # Missing
          /\ \A k \in 1..Len(Cards[e.rnl]) :
                Cards[e.rnl][k].name = e.rcard => HandledAt(e.pos, e.rnl, k)

\* C8 as stated: when the control file gives a card a literal that its
\* type does not accept, handle_pn_control does not return.
C8_AsStated ==
    \A nl \in Namelists : \A k \in 1..Len(Cards[nl]) :
      LET var == Cards[nl][k]
      IN  (/\ GivenLiteral(nl, var)
           /\ file[nl][var.name] \notin NpTexts
           /\ Coerce(var.type, file[nl][var.name]) = VErr)
            => ~Resolved

---------------------------------------------------------------------------
(* read_gsf.main, gamma line (args.dim = 1).  An energy is a record: nan   *)
(* for a NaN, v for its value counted in halves of the energy unit.        *)

\* the largest args.x_max of the model
MaxXMax == 3

NaNE == [nan |-> TRUE, v |-> 0]

Energy(halves) == [nan |-> FALSE, v |-> halves]

\* the energies get_gsf_energy returns: NaN, 2.0, 4.0 and -3.0
EnergyValues == {NaNE, Energy(4), Energy(8), Energy(-6)}

\* e != e
IsNaN(e) == e.nan

\* a sum that skips NaN operands, as numpy.nansum does; line 139 does not
PlusSkipNaN(a, b) ==
    Energy((IF a.nan THEN 0 ELSE a.v) + (IF b.nan THEN 0 ELSE b.v))

\* a + b and 0.5 * e of floats
Plus(a, b) == IF a.nan \/ b.nan THEN NaNE ELSE Energy(a.v + b.v)

Half(e) == IF e.nan THEN NaNE ELSE Energy(e.v \div 2)

\* neighbours reflected at the two ends of the line instead of wrapped
Neighbours1DReflect(i, n) ==
    IF n < 3 THEN <<(i - 1) % n, (i + 1) % n>>
    ELSE <<IF i = 0 THEN 1 ELSE i - 1, IF i = n - 1 THEN n - 2 ELSE i + 1>>

\* lines 139-140: the indices the average of sample i reads, of n samples
Neighbours1D(i, n) == <<(i - 1) % n, (i + 1) % n>>

\* lines 139-140: the value that replaces a NaN sample
Average1D(energies, i, n) ==
    Half(Plus(energies[Neighbours1D(i, n)[1]], energies[Neighbours1D(i, n)[2]]))

\* a test that lets every replaced sample pass
TooManyNaNNever(e) == FALSE

\* line 142: the replaced sample is still a NaN
TooManyNaN(e) == IsNaN(e)

GrInit1D(x_max, input) ==
    [pc |-> "open", dim |-> 1, x_max |-> x_max, input |-> input,
     energies |-> [i \in 0..x_max |-> Energy(0)], i |-> 0, out |-> <<>>,
     header |-> FALSE, outstream |-> "unopened", err |-> ""]

\* line 121
GrOpen ==
    /\ gr.pc = "open"
    /\ gr' = [gr EXCEPT !.outstream = "open", !.pc = "read"]
    /\ UNCHANGED pnVars

\* lines 124-132: the energies are read and the units line is written
GrRead1D ==
    /\ gr.pc = "read"
    /\ gr.dim = 1
    /\ gr' = [gr EXCEPT !.energies = gr.input, !.header = TRUE,
                        !.i = 0, !.pc = "repair"]
    /\ UNCHANGED pnVars

\* lines 136-146: one pass of the loop over the samples
GrRepair1D ==
    /\ gr.pc = "repair"
    /\ gr.dim = 1
    /\ gr.i <= gr.x_max
    /\ LET i == gr.i
           n == gr.x_max + 1
           e == IF IsNaN(gr.energies[i])
                THEN Average1D(gr.energies, i, n) ELSE gr.energies[i]
           energies == [gr.energies EXCEPT ![i] = e]
       IN  IF IsNaN(gr.energies[i]) /\ TooManyNaN(e)
           THEN gr' = [gr EXCEPT !.energies = energies, !.pc = "failed",
                                 !.err = "Too many NaN values."]
           ELSE gr' = [gr EXCEPT !.energies = energies,
                                 !.out = Append(@, <<i, e>>),
                                 !.i = i + 1]
    /\ UNCHANGED pnVars

\* line 195
GrClose ==
    /\ gr.pc = "repair"
    /\ gr.i > gr.x_max
    /\ gr' = [gr EXCEPT !.outstream = "closed", !.pc = "done"]
    /\ UNCHANGED pnVars

InitRepair1D ==
    /\ file = NoFile
    /\ InitPN
    /\ \E x_max \in 0..MaxXMax :
         \E input \in [0..x_max -> EnergyValues] :
           gr = GrInit1D(x_max, input)

NextRepair1D ==
    \/ GrOpen
    \/ GrRead1D
    \/ GrRepair1D
    \/ GrClose

SpecRepair1D == InitRepair1D /\ [][NextRepair1D]_vars

\* the samples before and after sample i on the closed line 0..x_max
LeftOf(i) == IF i = 0 THEN gr.x_max ELSE i - 1

RightOf(i) == IF i = gr.x_max THEN 0 ELSE i + 1

\* sample i was read as NaN, and its neighbours as the number given
NaNBetweenValid(i) ==
    /\ IsNaN(gr.input[i])
    /\ ~IsNaN(gr.input[LeftOf(i)])
    /\ ~IsNaN(gr.input[RightOf(i)])

NaNBetweenNaN(i) ==
    /\ IsNaN(gr.input[i])
    /\ IsNaN(gr.input[LeftOf(i)])
    /\ IsNaN(gr.input[RightOf(i)])

\* half the sum of the two samples read around sample i
HalfSum(i) == Energy((gr.input[LeftOf(i)].v + gr.input[RightOf(i)].v) \div 2)

\* C9: in the gamma-line repair, a sample read as NaN whose two neighbours
\* on the closed line (index 0 and index x_max being neighbours) are numbers
\* never stops the run, and once the loop has passed it the sample holds
\* half the sum of those two neighbours, and that value is the one written
\* for it.
C9_NaNReplacedByHalfSum ==
    gr.pc \in {"repair", "failed", "done"} =>
      \A i \in 0..gr.x_max :
        NaNBetweenValid(i) =>
          /\ ~(gr.pc = "failed" /\ gr.i = i)
          /\ gr.i > i =>
                /\ gr.energies[i] = HalfSum(i)
                /\ gr.out[i + 1] = <<i, HalfSum(i)>>

\* a NaN at index 0 between 2.0 (at index x_max) and 4.0 was written as 3.0
C9_Witness ==
    /\ gr.pc = "done"
    /\ gr.x_max = MaxXMax
    /\ IsNaN(gr.input[0])
    /\ gr.input[gr.x_max] = Energy(4)
    /\ gr.input[1] = Energy(8)
    /\ gr.out[1] = <<0, Energy(6)>>

\* C10: in the gamma-line repair, when a sample read as NaN has both
\* neighbours NaN, the run never completes, the only way it stops is the
\* error "Too many NaN values.", and no line is written for that sample.
C10_TooManyNaN ==
    gr.pc \in {"repair", "failed", "done"} =>
      \A i \in 0..gr.x_max :
        NaNBetweenNaN(i) =>
          /\ gr.pc # "done"
          /\ gr.i <= i
          /\ \A k \in 1..Len(gr.out) : gr.out[k][1] # i
          /\ gr.pc = "failed" => gr.err = "Too many NaN values."

\* the run stopped at sample 0, a NaN between two NaNs, with no line written
C10_Witness ==
    /\ gr.pc = "failed"
    /\ gr.err = "Too many NaN values."
    /\ gr.x_max = MaxXMax
    /\ gr.i = 0
    /\ NaNBetweenNaN(0)
    /\ gr.out = <<>>
    /\ gr.outstream = "open"

---------------------------------------------------------------------------
(* read_gsf.main, gamma surface (args.dim = 2).  An energy is a float, kept *)
(* as an exact fraction n/d in lowest terms, or a NaN.                      *)

\* the largest args.x_max and args.y_max of the grids of the model
MaxGrid == 2

\* the largest number of cells of the grids whose cells take every value
MaxCells == 6

RECURSIVE Gcd(_, _)
Gcd(a, b) == IF b = 0 THEN a ELSE Gcd(b, a % b)

Abs(a) == IF a < 0 THEN -a ELSE a

NaN2 == [nan |-> TRUE, n |-> 0, d |-> 1]

\* the float n/d
Frac(n, d) ==
    LET g == Gcd(Abs(n), d)
    IN  [nan |-> FALSE, n |-> n \div g, d |-> d \div g]

Num(n) == Frac(n, 1)

\* a + b, a / k and a < b of floats: a NaN operand gives NaN, and FALSE
FAdd(a, b) ==
    IF a.nan \/ b.nan THEN NaN2 ELSE Frac(a.n * b.d + b.n * a.d, a.d * b.d)

FDiv(a, k) == IF a.nan THEN NaN2 ELSE Frac(a.n, a.d * k)

FLess(a, b) == ~a.nan /\ ~b.nan /\ a.n * b.d < b.n * a.d

\* line 185
Sentinel == Num(-10000)

\* the energies get_gsf_energy returns for the cells: NaN, 5.0, 9.0, 2.0
EnergyValues2D == {NaN2, Num(5), Num(9), Num(2)}

Cells(x_max, y_max) == (0..x_max) \X (0..y_max)

\* a test that also leaves out every neighbour equal to -10000
NonsenseOrSentinel(e, E_perfect) ==
    FLess(e, FAdd(E_perfect, Num(-1))) \/ e = Sentinel

\* lines 163, 171, 173: energies[c] != energies[c], and
\* energies[c] < E_perfect - 1.
Nonsense(e, E_perfect) == FLess(e, FAdd(E_perfect, Num(-1)))

\* a test of line 163 that looks for NaN only
NeedsRepairNaNOnly(e, E_perfect) == e.nan

NeedsRepair(e, E_perfect) == e.nan \/ Nonsense(e, E_perfect)

\* lines 167-170: the cells read around cell (i, j)
Neighbours2D(i, j, x_max, y_max) ==
    << <<(i + 1) % x_max, j>>, <<(i - 1) % x_max, j>>,
       <<i, (j + 1) % y_max>>, <<i, (j - 1) % y_max>> >>

\* lines 165-179: approx_energy and num_real after the signatures
\* nb[1..k] were visited
RECURSIVE SumReal(_, _, _, _)
SumReal(energies, E_perfect, nb, k) ==
    IF k = 0 THEN [approx_energy |-> Num(0), num_real |-> 0]
    ELSE LET before == SumReal(energies, E_perfect, nb, k - 1)
             e == energies[nb[k]]
         IN  IF e.nan \/ Nonsense(e, E_perfect) THEN before
             ELSE [approx_energy |-> FAdd(before.approx_energy, e),
                   num_real |-> before.num_real + 1]

\* lines 165-187: the value that replaces cell (i, j), and whether the
\* warning is printed
Repair2D(energies, E_perfect, i, j, x_max, y_max) ==
    LET nb == Neighbours2D(i, j, x_max, y_max)
        r == SumReal(energies, E_perfect, nb, Len(nb))
    IN  IF r.num_real = 0
        THEN [e |-> Sentinel, warning |-> TRUE]
        ELSE [e |-> FDiv(r.approx_energy, r.num_real), warning |-> FALSE]

GrInit2D(x_max, y_max, input) ==
    [pc |-> "open", dim |-> 2, x_max |-> x_max, y_max |-> y_max,
     input |-> input,
     energies |-> [c \in Cells(x_max, y_max) |-> Num(0)],
     E_perfect |-> Num(0), i |-> 0, j |-> 0, out |-> <<>>,
     warnings |-> <<>>, header |-> FALSE, outstream |-> "unopened",
     err |-> ""]

\* lines 149-160: the energies are read, the units line is written and the
\* energy of the cell at the origin is kept
GrRead2D ==
    /\ gr.pc = "read"
    /\ gr.dim = 2
    /\ gr' = [gr EXCEPT !.energies = gr.input, !.header = TRUE,
                        !.E_perfect = gr.input[<<0, 0>>],
                        !.i = 0, !.j = 0, !.pc = "repair"]
    /\ UNCHANGED pnVars

\* lines 161-193: one pass of the inner loop.  The list of signatures is
\* built before any neighbour is read: a modulus of 0 raises there
GrRepair2D ==
    /\ gr.pc = "repair"
    /\ gr.dim = 2
    /\ gr.i <= gr.x_max
    /\ LET i == gr.i
           j == gr.j
           c == <<i, j>>
           last == j = gr.y_max
       IN  IF ~NeedsRepair(gr.energies[c], gr.E_perfect)
           THEN gr' = [gr EXCEPT !.out = Append(@, <<i, j, gr.energies[c]>>),
                                 !.i = IF last THEN i + 1 ELSE i,
                                 !.j = IF last THEN 0 ELSE j + 1]
           ELSE IF gr.x_max = 0 \/ gr.y_max = 0
           THEN gr' = [gr EXCEPT !.pc = "failed",
                                 !.err = "ZeroDivisionError"]
           ELSE LET r == Repair2D(gr.energies, gr.E_perfect, i, j,
                                  gr.x_max, gr.y_max)
                IN  gr' = [gr EXCEPT
                             !.energies = [@ EXCEPT ![c] = r.e],
                             !.warnings = IF r.warning THEN Append(@, c)
                                          ELSE @,
                             !.out = Append(@, <<i, j, r.e>>),
                             !.i = IF last THEN i + 1 ELSE i,
                             !.j = IF last THEN 0 ELSE j + 1]
    /\ UNCHANGED pnVars

\* the grids of the model: every grid of at most MaxCells cells, and the
\* grids of 3 by 3 cells equal to 5.0 but for one cell, NaN or 2.0
InitRepair2D ==
    /\ file = NoFile
    /\ InitPN
    /\ \/ \E x_max \in 0..MaxGrid : \E y_max \in 0..MaxGrid :
            /\ (x_max + 1) * (y_max + 1) <= MaxCells
            /\ \E input \in [Cells(x_max, y_max) -> EnergyValues2D] :
                 gr = GrInit2D(x_max, y_max, input)
       \/ \E bad \in Cells(2, 2) : \E e \in {NaN2, Num(2)} :
            gr = GrInit2D(2, 2, [c \in Cells(2, 2) |->
                                   IF c = bad THEN e ELSE Num(5)])

NextRepair2D ==
    \/ GrOpen
    \/ GrRead2D
    \/ GrRepair2D
    \/ GrClose

SpecRepair2D == InitRepair2D /\ [][NextRepair2D]_vars

\* read_gsf.main with either value of args.dim
InitRepair == InitRepair1D \/ InitRepair2D

NextRepair ==
    \/ GrOpen
    \/ GrRead1D
    \/ GrRepair1D
    \/ GrRead2D
    \/ GrRepair2D
    \/ GrClose

SpecRepair == InitRepair /\ [][NextRepair]_vars

---------------------------------------------------------------------------
(* Properties of the repair of a gamma surface *)

\* cell a is visited before cell b by the loops of lines 161-162
Before(a, b) == a[1] < b[1] \/ (a[1] = b[1] /\ a[2] < b[2])

\* cell c was visited and its line written
Visited(c) ==
    /\ gr.pc \in {"repair", "failed", "done"}
    /\ Before(c, <<gr.i, gr.j>>)

\* the grid as it was when cell c was visited: the cells visited before it
\* hold the value written for them, the others the value read
GridAt(c) ==
    [a \in Cells(gr.x_max, gr.y_max) |->
       IF Before(a, c) THEN gr.energies[a] ELSE gr.input[a]]

\* the four neighbours of cell (i, j) on the torus of x_max + 1 by
\* y_max + 1 cells
Toroidal(i, j, x_max, y_max) ==
    << <<(i + 1) % (x_max + 1), j>>, <<(i - 1) % (x_max + 1), j>>,
       <<i, (j + 1) % (y_max + 1)>>, <<i, (j - 1) % (y_max + 1)>> >>

\* the sum and the number of the neighbours on the torus of cell c that
\* were neither NaN nor suspect when c was visited
ValidAround(c) ==
    LET nb == Toroidal(c[1], c[2], gr.x_max, gr.y_max)
    IN  SumReal(GridAt(c), gr.E_perfect, nb, Len(nb))

\* the line written for cell c
Written(c) == gr.out[c[1] * (gr.y_max + 1) + c[2] + 1]

\* C11 as stated: every cell read as NaN or suspect that has a valid
\* neighbour on the torus of x_max + 1 by y_max + 1 cells is written as the
\* mean of its valid neighbours on that torus.
C11_AsStated ==
    gr.pc \in {"repair", "failed", "done"} =>
      \A c \in Cells(gr.x_max, gr.y_max) :
        (/\ Visited(c)
         /\ NeedsRepair(gr.input[c], gr.E_perfect)
         /\ ValidAround(c).num_real > 0)
          => Written(c) = <<c[1], c[2],
                            FDiv(ValidAround(c).approx_energy,
                                 ValidAround(c).num_real)>>

\* the loops are at cell c, or past it
Reached(c) ==
    /\ gr.pc \in {"repair", "failed", "done"}
    /\ Visited(c) \/ c = <<gr.i, gr.j>>

\* C12 as stated: a cell read as NaN or suspect none of whose four
\* neighbours on the torus is valid raises no error; it is written as
\* -10000 and the warning is printed for it.
C12_AsStated ==
    gr.pc \in {"repair", "failed", "done"} =>
      \A c \in Cells(gr.x_max, gr.y_max) :
        (/\ Reached(c)
         /\ NeedsRepair(gr.input[c], gr.E_perfect)
         /\ ValidAround(c).num_real = 0)
          => /\ ~(gr.pc = "failed" /\ c = <<gr.i, gr.j>>)
             /\ Visited(c) =>
                  /\ Written(c) = <<c[1], c[2], Sentinel>>
                  /\ \E k \in 1..Len(gr.warnings) : gr.warnings[k] = c

\* the values written, and the value written for the origin
WrittenValues == {gr.out[k][Len(gr.out[k])] : k \in 1..Len(gr.out)}

WrittenOrigin == gr.out[1][Len(gr.out[1])]

\* value e is more than 1.0 below the value ref, in either unit
Suspect(e, ref) ==
    IF gr.dim = 1 THEN ~e.nan /\ ~ref.nan /\ e.v < ref.v - 2
    ELSE Nonsense(e, ref)

\* C13 (amended): when the repair completes, no value written is NaN.  In
\* the repair of a surface whose origin cell was read as a number, no value
\* written is more than 1.0 below the energy of the origin either.  The
\* repair of a line makes no such test, and the repair of a surface makes
\* none when its origin was read as NaN: every value read as a number is
\* then written as it was read, however low.
C13_NoNaNWritten ==
    gr.pc = "done" =>
      /\ \A e \in WrittenValues : ~e.nan
      /\ (gr.dim = 2 /\ ~gr.E_perfect.nan) =>
            \A e \in WrittenValues : ~Nonsense(e, gr.E_perfect)
      /\ gr.dim = 1 =>
            \A i \in 0..gr.x_max :
              ~IsNaN(gr.input[i]) => gr.out[i + 1] = <<i, gr.input[i]>>
      /\ (gr.dim = 2 /\ gr.E_perfect.nan) =>
            \A c \in Cells(gr.x_max, gr.y_max) :
              ~gr.input[c].nan => Written(c) = <<c[1], c[2], gr.input[c]>>

\* a surface with a number at the origin, a NaN cell and a suspect cell was
\* repaired, both cells being written as other values
C13_Witness ==
    /\ gr.pc = "done"
    /\ gr.dim = 2
    /\ ~gr.E_perfect.nan
    /\ \E c \in Cells(gr.x_max, gr.y_max) :
         gr.input[c].nan /\ ~Written(c)[3].nan
    /\ \E c \in Cells(gr.x_max, gr.y_max) :
         Nonsense(gr.input[c], gr.E_perfect) /\ Written(c)[3] # gr.input[c]

\* C13 as stated: when the repair of a line or of a surface completes, no
\* value written is NaN and none is more than 1.0 below the value written
\* for the origin.
C13_AsStated ==
    gr.pc = "done" =>
      \A e \in WrittenValues : ~e.nan /\ ~Suspect(e, WrittenOrigin)

\* every cell but c was read as the number v, and c as a NaN or, c not
\* being the origin, as a number more than 1.0 below v
UniformButOne(c, v) ==
    /\ ~v.nan
    /\ \A a \in Cells(gr.x_max, gr.y_max) : a # c => gr.input[a] = v
    /\ \/ gr.input[c].nan
       \/ c # <<0, 0>> /\ Nonsense(gr.input[c], v)

\* C14 as stated: in a surface with at least two cells on each axis where
\* one cell is invalid and all the others hold the same value v, the
\* invalid cell is written as v, wherever it lies.
C14_AsStated ==
    (gr.pc \in {"repair", "failed", "done"} /\ gr.x_max >= 1 /\ gr.y_max >= 1)
      => \A c \in Cells(gr.x_max, gr.y_max) :
           \A v \in EnergyValues2D :
             (Visited(c) /\ UniformButOne(c, v))
               => Written(c) = <<c[1], c[2], v>>

---------------------------------------------------------------------------
(* The sum of lines 165-187 in floating point.  A float is a record of the *)
(* 1D repair whose value, counted in units, keeps PrecBits significant     *)
(* bits: sums and quotients are rounded to the nearest float, ties to even. *)

\* the significant bits of a float of the model (53 for a double)
PrecBits == 3

RECURSIVE Pow2(_)
Pow2(n) == IF n = 0 THEN 1 ELSE 2 * Pow2(n - 1)

RECURSIVE BitLen(_)
BitLen(a) == IF a = 0 THEN 0 ELSE 1 + BitLen(a \div 2)

\* the spacing of the floats around a units
Ulp(a) == IF a < Pow2(PrecBits) THEN 1 ELSE Pow2(BitLen(a) - PrecBits)

\* the float nearest to x / k units, k > 0
RoundQuot(x, k) ==
    LET a == Abs(x)
        q == Ulp(a \div k)
        lo == ((a \div k) \div q) * q
        twice == 2 * (a - lo * k)
        r == IF twice < q * k THEN lo
             ELSE IF twice > q * k THEN lo + q
             ELSE IF (lo \div q) % 2 = 0 THEN lo ELSE lo + q
    IN  IF x < 0 THEN -r ELSE r

\* an addition that truncates its first operand to an even number of units
\* before adding: it is not commutative
FloatAddSkewed(a, b) ==
    IF a.nan \/ b.nan THEN NaNE
    ELSE Energy(RoundQuot(2 * (a.v \div 2) + b.v, 1))

\* a + b of two floats
FloatAdd(a, b) ==
    IF a.nan \/ b.nan THEN NaNE ELSE Energy(RoundQuot(a.v + b.v, 1))

\* a / k of a float and a count
FloatDiv(a, k) == IF a.nan THEN NaNE ELSE Energy(RoundQuot(a.v, k))

\* the order in which lines 167-170 list the four neighbours
CodeOrder == <<1, 2, 3, 4>>

Orders == {o \in [1..4 -> 1..4] : \A a, b \in 1..4 : o[a] = o[b] => a = b}

\* lines 165-179 with the neighbours visited in the order o: approx_energy
\* and num_real after k of them.  suspect[n] tells that neighbour n is
\* below E_perfect - 1.
RECURSIVE SumInOrder(_, _, _, _)
SumInOrder(vals, suspect, o, k) ==
    IF k = 0 THEN [approx_energy |-> Energy(0), num_real |-> 0]
    ELSE LET before == SumInOrder(vals, suspect, o, k - 1)
             e == vals[o[k]]
         IN  IF IsNaN(e) \/ suspect[o[k]] THEN before
             ELSE [approx_energy |-> FloatAdd(before.approx_energy, e),
                   num_real |-> before.num_real + 1]

\* lines 181-187: the value given to the cell
MeanInOrder(vals, suspect, o) ==
    LET r == SumInOrder(vals, suspect, o, 4)
    IN  IF r.num_real = 0 THEN Energy(-10000)
        ELSE FloatDiv(r.approx_energy, r.num_real)

\* the values of the neighbours: NaN, 8, 1 and 3 units
OrderValues == {NaNE, Energy(8), Energy(1), Energy(3)}

GrInitOrder(vals, suspect, o) ==
    [pc |-> "sum", dim |-> 2, vals |-> vals, suspect |-> suspect,
     order |-> o, first |-> NaNE, second |-> NaNE]

\* the repair of one cell, and the repair of the same cell run again
GrSum ==
    /\ gr.pc = "sum"
    /\ gr' = [gr EXCEPT !.first = MeanInOrder(gr.vals, gr.suspect, gr.order),
                        !.pc = "again"]
    /\ UNCHANGED pnVars

GrSumAgain ==
    /\ gr.pc = "again"
    /\ gr' = [gr EXCEPT !.second = MeanInOrder(gr.vals, gr.suspect, gr.order),
                        !.pc = "summed"]
    /\ UNCHANGED pnVars

InitOrder ==
    /\ file = NoFile
    /\ InitPN
    /\ \E vals \in [1..4 -> OrderValues] :
         \E bad \in 0..4 : \E o \in Orders :
           gr = GrInitOrder(vals, [n \in 1..4 |-> n = bad], o)

NextOrder ==
    \/ GrSum
    \/ GrSumAgain

SpecOrder == InitOrder /\ [][NextOrder]_vars

\* the neighbours that are summed
RealNeighbours == {n \in 1..4 : ~IsNaN(gr.vals[n]) /\ ~gr.suspect[n]}

---------------------------------------------------------------------------
(* Properties of the stress stage and of the report *)

CalculateStress == Truthy(stress("calculate_stress"))

StressFields == {"taup", "taup_av", "wp", "wp_av"}

StressLines == {"stress", "barrier"}

InReport(line) == \E k \in 1..Len(report) : report[k] = line

Ended(stage) == \E k \in 1..Len(returned) : returned[k] = stage

Called(f) == \E k \in 1..Len(calls) : calls[k].f = f

\* C16: pb.taup and pb.peierls_barrier are called, and taup, taup_av, wp and
\* wp_av are set, only if stress.calculate_stress is true, and they are once
\* peierls has returned with the card true; the report holds the stress and
\* barrier lines only if the card is true, and holds them once write_output
\* has returned with the card true; a run that ends with the card false has
\* E set and written, no stress field set and no stress line written.
C16_StressOnlyIfAsked ==
    /\ (Called("pb.taup") \/ Called("pb.peierls_barrier")) => CalculateStress
    /\ \A a \in StressFields : self[a] = "set" => CalculateStress
    /\ (Ended("Stress") /\ CalculateStress)
         => /\ Called("pb.taup")
            /\ Called("pb.peierls_barrier")
            /\ \A a \in StressFields : self[a] = "set"
    /\ \A l \in StressLines : InReport(l) => CalculateStress
    /\ (Ended("Report") /\ CalculateStress)
         => \A l \in StressLines : InReport(l)
    /\ (pc = "done" /\ ~CalculateStress)
         => /\ self["E"] = "set"
            /\ InReport("E")
            /\ InReport("Finished")
            /\ \A a \in StressFields : self[a] = "unset"
            /\ \A l \in StressLines : ~InReport(l)

\* a 1D run with explicit parameters and calculate_stress = False reached
\* the end of the report
C16_Witness ==
    /\ pc = "done"
    /\ Ended("Stress")
    /\ Ended("Report")
    /\ PyEq(control("dimensions"), 1)
    /\ file["control"]["parameters"] # Absent
    /\ file["stress"]["calculate_stress"] = "False"
    /\ ~CalculateStress
    /\ self["E"] = "set"
    /\ InReport("E")
    /\ \A a \in StressFields : self[a] = "unset"

---------------------------------------------------------------------------
(* Properties of the output streams *)

\* C17 as stated: once a run of PNSim or of the grid reader has ended in an
\* error, none of its output streams (report, disreg, rho, repaired grid)
\* is still open.
C17_AsStated ==
    /\ pc = "failed" => \A st \in Streams : streams[st] # "open"
    /\ (gr.pc = "failed" /\ gr.dim \in {1, 2}) => gr.outstream # "open"

---------------------------------------------------------------------------
(* from_mapping called on a card that holds a mapping, then called again   *)
(* on the same card of the same dict                                       *)

\* the mapped cards: namelist, card and the text of the mapping
RemapCards ==
    { <<"struc", "b", "map struc > a: x -> x">>,
      <<"struc", "b", "map struc > a: x -> 2*x">>,
      <<"struc", "burgers", "map struc > a: x -> x">>,
      <<"struc", "spacing", "map struc > a: x -> 2*x">>,
      <<"surface", "x_length", "map struc > a: x -> x">>,
      <<"surface", "y_length", "map struc > b: x -> x">>,
      <<"control", "max_x", "map control > nplanes: x -> 2*x">>,
      <<"surface", "x_length", "map surface > angle: x -> x">> }

\* the values the referenced card may hold: texts of the control file,
\* coerced values, or nothing
ReferencedValues ==
    { StrV("3.5"), StrV("3"), StrV("3.500000000003"), StrV("abc"),
      StrV("True"), FloatV(35000), FloatX(35000, 3), IntV(3), BoolV(TRUE),
      None, Missing }

\* the dict with the mapped card c holding its mapping and the referenced
\* card holding v
RemapDict(c, v) ==
    LET m == MapParse(c[3])
        bare == [nl \in Namelists |-> EmptyDict(nl)]
        ref == [bare EXCEPT ![m.namelist][m.val] = v]
    IN  [ref EXCEPT ![c[1]][c[2]] = StrV(c[3])]

GrRemap(c, v) ==
    [pc |-> "remap", dim |-> 0, nl |-> c[1], card |-> c[2], mapping |-> c[3],
     referenced |-> v, first |-> Missing]

\* one call of from_mapping(top_dict, namelist, card), lines 53-72: the
\* first on the card
FromMapping ==
    /\ pc = "from_mapping"
    /\ LET r == from_mapping(sim, simKeys, gr.nl, gr.card, Pos)
       IN  /\ sim' = r.top
           /\ mapLog' = mapLog \o r.log
           /\ err' = IF r.exc # "none" THEN Error(r.exc, MsgOf(r), r.card)
                     ELSE err
           /\ pc' = IF r.exc # "none" THEN "failed" ELSE "mapped"
           /\ gr' = [gr EXCEPT !.first = r.top[gr.nl][gr.card]]
    /\ UNCHANGED <<file, simKeys, nli, ci, self, calls, started, returned,
                   streams, report>>

\* the same call made again on the dict the first call left
FromMappingAgain ==
    /\ pc = "mapped"
    /\ LET r == from_mapping(sim, simKeys, gr.nl, gr.card, Pos)
       IN  /\ sim' = r.top
           /\ mapLog' = mapLog \o r.log
           /\ err' = IF r.exc # "none" THEN Error(r.exc, MsgOf(r), r.card)
                     ELSE err
           /\ pc' = IF r.exc # "none" THEN "failed" ELSE "mapped twice"
    /\ UNCHANGED <<file, simKeys, nli, ci, self, calls, started, returned,
                   streams, report, gr>>

InitRemap ==
    /\ file = NoFile
    /\ \E c \in RemapCards : \E v \in ReferencedValues :
         /\ sim = RemapDict(c, v)
         /\ gr = GrRemap(c, v)
    /\ simKeys = Namelists
    /\ pc = "from_mapping"
    /\ nli = 1
    /\ ci = 1
    /\ err = NoErr
    /\ self = [a \in Attrs |-> "unset"]
    /\ calls = <<>>
    /\ started = <<>>
    /\ returned = <<>>
    /\ streams = [st \in Streams |-> "unopened"]
    /\ report = <<>>
    /\ mapLog = <<>>

NextRemap ==
    \/ FromMapping
    \/ FromMappingAgain

SpecRemap == InitRemap /\ [][NextRemap]_vars

\* C18 as stated: a card whose mapping was resolved by from_mapping, and
\* whose referenced value is unchanged, is resolved a second time without
\* error and holds the same value afterwards: no second call of
\* from_mapping on the card fails, and after it the card holds the value the
\* first call gave it.
C18_AsStated ==
    /\ (gr.pc = "remap" /\ pc = "failed") => gr.first = StrV(gr.mapping)
    /\ (gr.pc = "remap" /\ pc = "mapped twice")
         => sim[gr.nl][gr.card] = gr.first

---------------------------------------------------------------------------
(* Properties of the surface repair: errors and written lines *)

\* C19 as stated: for every size x_max >= 0, y_max >= 0 and every pattern
\* of NaN and suspect cells the 2D repair does not end in an error, and
\* once done it has written one value for each cell of the grid, in the
\* order of the cells.
C19_AsStated ==
    gr.dim = 2 =>
      /\ gr.pc # "failed"
      /\ gr.pc = "done" =>
           /\ Len(gr.out) = (gr.x_max + 1) * (gr.y_max + 1)
           /\ \A c \in Cells(gr.x_max, gr.y_max) :
                /\ Written(c)[1] = c[1]
                /\ Written(c)[2] = c[2]

---------------------------------------------------------------------------
(* get_gsf_energy: the energy read in the output of one calculation *)

\* the programs of energy_lines, as --program may spell them
Programs == {"gulp", "GULP", "castep", "qe"}

\* Final Gnorm in tenths: 0.1, 0.2 and 0.3
Gnorms == {1, 2, 3}

\* acceptable_gnorm = 0.2, in tenths
acceptable_gnorm == 2

\* the matches of the energy pattern in a file: at most two, of 2.0 and 4.0
MatchedEnergies ==
    {<<>>} \cup {<<a>> : a \in {Energy(4), Energy(8)}}
           \cup {<<a, b>> : a, b \in {Energy(4), Energy(8)}}

\* what matters of the text of an output file: the energies the pattern of
\* the program matches, whether one of the two failure messages of GULP is
\* in it, and the number of its 'Final Gnorm =' line (0: no such line)
OutputFiles ==
    [matched_energies : MatchedEnergies, flagged : BOOLEAN,
     gnorm : {0} \cup Gnorms]

Returned(E, units) == [exc |-> "none", E |-> E, units |-> units]

Raised(exc) == [exc |-> exc, E |-> NaNE, units |-> "None"]

\* lines 96-98: E after the loop over the matches
LastMatch(matched_energies) == matched_energies[Len(matched_energies)]

\* lines 50-103
get_gsf_energy(prog, output) ==
    IF output.matched_energies = <<>> THEN Returned(NaNE, "None")
    ELSE IF Lower(prog) = "gulp"
    THEN IF output.flagged /\ output.gnorm = 0 THEN Raised("AttributeError")
         ELSE LET gnorm == IF output.flagged THEN output.gnorm ELSE 0
              IN  IF gnorm < acceptable_gnorm
                  THEN Returned(LastMatch(output.matched_energies), "eV")
                  ELSE Returned(NaNE, "None")
    ELSE Raised("UnboundLocalError")

GrInitEnergy(prog, output) ==
    [pc |-> "energy", dim |-> 0, prog |-> prog, output |-> output,
     E |-> NaNE, units |-> "None", err |-> ""]

\* one call of get_gsf_energy (lines 127 and 153)
GetGsfEnergy ==
    /\ gr.pc = "energy"
    /\ LET r == get_gsf_energy(gr.prog, gr.output)
       IN  gr' = IF r.exc = "none"
                 THEN [gr EXCEPT !.E = r.E, !.units = r.units,
                                 !.pc = "returned"]
                 ELSE [gr EXCEPT !.err = r.exc, !.pc = "failed"]
    /\ UNCHANGED pnVars

InitEnergy ==
    /\ file = NoFile
    /\ InitPN
    /\ \E prog \in Programs : \E output \in OutputFiles :
         gr = GrInitEnergy(prog, output)

NextEnergy == GetGsfEnergy

SpecEnergy == InitEnergy /\ [][NextEnergy]_vars

\* the file is flagged as not converged: a failure message of GULP with a
\* Gnorm of 0.2 or more
Unconverged ==
    /\ Lower(gr.prog) = "gulp"
    /\ gr.output.flagged
    /\ gr.output.gnorm >= acceptable_gnorm

\* a failure message of GULP comes with a 'Final Gnorm =' line
WellFormed == gr.output.flagged => gr.output.gnorm # 0

\* C20 as stated: for gulp, castep and qe, once get_gsf_energy has been
\* called on a well-formed file it has returned: the last of the matched
\* energies when the file has an energy line and is not flagged as not
\* converged, NaN when it has no energy line or is a GULP file with a
\* failure message and a Gnorm of 0.2 or more.
C20_AsStated ==
    (gr.pc \in {"returned", "failed"} /\ gr.dim = 0 /\ WellFormed)
      => IF gr.output.matched_energies = <<>> \/ Unconverged
         THEN gr.pc = "returned" /\ IsNaN(gr.E)
         ELSE /\ gr.pc = "returned"
              /\ gr.E = gr.output.matched_energies[
                          Len(gr.output.matched_energies)]

---------------------------------------------------------------------------
(* control_file: the loop over the lines of the control file.  A line is   *)
(* what line.strip() leaves of it: a comment (it starts with #), the start *)
(* of a namelist (it starts with &), a line holding '};;', a blank line or *)
(* a card 'par = value;'.                                                   *)

\* the lines added to a control file of the model
MaxInserted == 2

Comment == [kind |-> "comment", name |-> "", value |-> ""]

Blank == [kind |-> "blank", name |-> "", value |-> ""]

StartLine(nl) == [kind |-> "start", name |-> nl, value |-> ""]

EndLine == [kind |-> "end", name |-> "", value |-> ""]

CardLine(par, value) == [kind |-> "card", name |-> par, value |-> value]

\* two valid control files without comment or blank line
BaseFiles ==
    { << StartLine("control"), CardLine("gsf_file", "gsf.dat"), EndLine,
         StartLine("struc"), CardLine("a", "3.5"), EndLine >>,
      << StartLine("control"), CardLine("gsf_file", "gsf.dat"),
         CardLine("n_iter", "5"), EndLine >> }

\* the lines with one more line after the first p of them
InsertAt(lines, p, line) ==
    SubSeq(lines, 1, p) \o <<line>> \o SubSeq(lines, p + 1, Len(lines))

\* a base file with n comment or blank lines added anywhere
RECURSIVE WithInserted(_, _)
WithInserted(base, n) ==
    IF n = 0 THEN {base}
    ELSE LET fewer == WithInserted(base, n - 1)
         IN  fewer \cup UNION {{InsertAt(f, p, l) :
                                    p \in 0..Len(f), l \in {Comment, Blank}} :
                                  f \in fewer}

\* the locals of control_file before the loop (lines 24-26): in_namelist
\* and card_name are not assigned
ParseStart ==
    [sim_parameters |-> {}, keys |-> {}, in_namelist |-> "unbound",
     card_name |-> "unbound", exc |-> "none"]

\* lines 29-49: the body of the loop for one line
ParseLine(st, line) ==
    IF line.kind = "comment" THEN st
    ELSE IF line.kind = "start"
    THEN [st EXCEPT !.sim_parameters = {t \in @ : t[1] # line.name},
                    !.keys = @ \cup {line.name},
                    !.card_name = line.name,
                    !.in_namelist = "True"]
    ELSE IF st.in_namelist = "unbound"
    THEN [st EXCEPT !.exc = "UnboundLocalError"]
    ELSE IF st.in_namelist = "False" THEN st
    ELSE IF line.kind = "end" THEN [st EXCEPT !.in_namelist = "False"]
    ELSE IF line.kind = "blank" THEN st
    ELSE [st EXCEPT !.sim_parameters =
                       {t \in @ : ~(t[1] = st.card_name /\ t[2] = line.name)}
                         \cup {<<st.card_name, line.name, line.value>>}]

\* control_file on the lines of a file: the locals after the last line, or
\* after the line that raised
RECURSIVE ParseAll(_, _)
ParseAll(lines, k) ==
    IF k = 0 THEN ParseStart
    ELSE LET before == ParseAll(lines, k - 1)
         IN  IF before.exc # "none" THEN before
             ELSE ParseLine(before, lines[k])

GrInitParse(base, lines) ==
    [pc |-> "parse", dim |-> 0, base |-> base, lines |-> lines, k |-> 1,
     st |-> ParseStart]

\* one turn of the loop of line 28
ReadLine ==
    /\ gr.pc = "parse"
    /\ gr.k <= Len(gr.lines)
    /\ LET st == ParseLine(gr.st, gr.lines[gr.k])
       IN  gr' = [gr EXCEPT !.st = st,
                            !.k = @ + 1,
                            !.pc = IF st.exc # "none" THEN "failed" ELSE @]
    /\ UNCHANGED pnVars

\* line 51
ReturnParameters ==
    /\ gr.pc = "parse"
    /\ gr.k > Len(gr.lines)
    /\ gr' = [gr EXCEPT !.pc = "parsed"]
    /\ UNCHANGED pnVars

InitParse ==
    /\ file = NoFile
    /\ InitPN
    /\ \E base \in BaseFiles : \E lines \in WithInserted(base, MaxInserted) :
         gr = GrInitParse(base, lines)

NextParse ==
    \/ ReadLine
    \/ ReturnParameters

SpecParse == InitParse /\ [][NextParse]_vars

\* C21 as stated: whatever comment and blank lines were added to a valid
\* control file, and wherever, control_file raises no error and returns
\* the parameters it returns for the file without them.
C21_AsStated ==
    (gr.pc \in {"parse", "parsed", "failed"} /\ gr.dim = 0)
      => /\ gr.pc # "failed"
         /\ gr.pc = "parsed"
              => LET plain == ParseAll(gr.base, Len(gr.base))
                 IN  /\ gr.st.sim_parameters = plain.sim_parameters
                     /\ gr.st.keys = plain.keys

---------------------------------------------------------------------------
(* Properties of run_sim *)

Fitters == {"pn1.run_monte1d", "pn2.run_monte2d"}

FitterCalls == {k \in 1..Len(calls) : calls[k].f \in Fitters}

FitterOf(dims) ==
    IF PyEq(dims, 1) THEN "pn1.run_monte1d" ELSE "pn2.run_monte2d"

OneOrTwo(dims) == PyEq(dims, 1) \/ PyEq(dims, 2)

\* C22 (amended): a fitter is never called twice, and none is called before
\* run_sim.  Once run_sim has returned with dimensions equal to 1 or 2, the
\* fitter was called exactly once: pn1.run_monte1d for 1 and
\* pn2.run_monte2d for 2, with params = control.parameters and niter = 1
\* when the parameters are not empty, with params = None and niter =
\* control.n_iter when they are empty; E and par are set.  With any other
\* value of dimensions run_sim returns without calling a fitter.
C22_FitterOnce ==
    /\ Cardinality(FitterCalls) <= 1
    /\ ~Ended("ConstructSurface") => FitterCalls = {}
    /\ (Ended("Relax") /\ OneOrTwo(control("dimensions")))
         => /\ Cardinality(FitterCalls) = 1
            /\ \A k \in FitterCalls :
                 /\ calls[k].f = FitterOf(control("dimensions"))
                 /\ IF control("parameters").n # 0
                    THEN /\ calls[k].a = IntV(1)
                         /\ calls[k].b = control("parameters")
                    ELSE /\ calls[k].a = control("n_iter")
                         /\ calls[k].b = None
            /\ self["E"] = "set"
            /\ self["par"] = "set"
    /\ (Ended("Relax") /\ ~OneOrTwo(control("dimensions")))
         => FitterCalls = {}

\* run_sim returned in a 1D run with parameters given and n_iter = 5: the
\* 1D fitter was called with niter = 1
C22_Witness ==
    /\ Ended("Relax")
    /\ PyEq(control("dimensions"), 1)
    /\ control("n_iter") = IntV(5)
    /\ control("parameters") = VecV(3)
    /\ \E k \in FitterCalls :
         /\ calls[k] = Call("pn1.run_monte1d", IntV(1), VecV(3))
    /\ self["E"] = "set"
    /\ self["par"] = "set"

\* C22 as stated: once run_sim has returned the fitter was called exactly
\* once, the 1D fitter when dimensions = 1 and the 2D fitter when
\* dimensions = 2, and E and par are set.
C22_AsStated ==
    Ended("Relax")
      => /\ Cardinality(FitterCalls) = 1
         /\ self["E"] = "set"
         /\ self["par"] = "set"

---------------------------------------------------------------------------
(* Properties of the energy coefficients *)

DislType == Lower(control("disl_type").s)

---------------------------------------------------------------------------
(* Properties of the gamma-line repair: order and in-place update *)

\* sample k was read as NaN next to a sample read as NaN
NaNPair(k) == IsNaN(gr.input[k]) /\ IsNaN(gr.input[RightOf(k)])

\* no sample read as NaN has a neighbour read as NaN
NaNsApart ==
    \A k \in 0..gr.x_max :
      IsNaN(gr.input[k])
        => ~IsNaN(gr.input[LeftOf(k)]) /\ ~IsNaN(gr.input[RightOf(k)])

\* C24: the gamma-line repair goes through the samples in increasing order
\* and updates them in place: the samples passed are numbers (a repaired
\* left neighbour counts as valid), the samples not reached are as read.
\* The run fails only at a NaN sample with a neighbour that is NaN at that
\* moment, and a NaN sample was passed only if its neighbours were numbers
\* at that moment.  A run whose input has two adjacent NaN samples never
\* completes; a run whose NaN samples are all apart never fails.
C24_InPlace ==
    (gr.pc \in {"repair", "failed", "done"} /\ gr.dim = 1) =>
      /\ \A k \in 0..gr.x_max :
           /\ k < gr.i => ~IsNaN(gr.energies[k])
           /\ k > gr.i => gr.energies[k] = gr.input[k]
           /\ (k < gr.i /\ IsNaN(gr.input[k]))
                => /\ k < gr.x_max => ~IsNaN(gr.input[k + 1])
                   /\ k = 0 => ~IsNaN(gr.input[gr.x_max])
                   /\ gr.out[k + 1] = <<k, gr.energies[k]>>
           /\ NaNPair(k) => gr.pc # "done"
      /\ gr.pc = "failed"
           => /\ IsNaN(gr.input[gr.i])
              /\ \/ IsNaN(gr.energies[LeftOf(gr.i)])
                 \/ IsNaN(gr.energies[RightOf(gr.i)])
              /\ Len(gr.out) = gr.i
      /\ NaNsApart => gr.pc # "failed"

\* two NaN samples apart were repaired, the second one with the repaired
\* value of no sample but with its two valid neighbours
C24_Witness ==
    /\ gr.pc = "done"
    /\ gr.x_max = 3
    /\ gr.input = (0 :> NaNE @@ 1 :> Energy(4) @@ 2 :> NaNE @@ 3 :> Energy(8))
    /\ gr.out = << <<0, Energy(6)>>, <<1, Energy(4)>>, <<2, Energy(6)>>,
                   <<3, Energy(8)>> >>

---------------------------------------------------------------------------
(* Properties of the dislocation type *)

\* the grid read by construct_gsf has three columns
SurfaceRead == \E k \in GridReads : calls[k].b = IntV(3)

Projections == {k \in 1..Len(calls) : calls[k].f = "fg.projection"}

\* C25 as stated: in a 1D run on a three-column grid, whatever disl_type
\* is, once the coefficient is selected no later stage fails on the type:
\* construct_gsf projects along axis 0 when K is the edge coefficient and
\* along axis 1 when K is the screw coefficient, and post-processing reads
\* ux when K is the edge coefficient.
C25_AsStated ==
    (Ended("Resolve") /\ PyEq(control("dimensions"), 1) /\ SurfaceRead)
      => /\ err.type # "UnboundLocalError"
         /\ \A k \in Projections :
              /\ self["K"] = "K[0]" => calls[k].a = IntV(0)
              /\ self["K"] = "K[1]" => calls[k].a = IntV(1)
         /\ \A k \in 1..Len(calls) :
              (calls[k].f = "pn1.rho" /\ self["K"] = "K[0]")
                => calls[k].a = StrV("ux")

---------------------------------------------------------------------------
(* Properties of the texts that hold 'map' *)

\* the control file gives the card a text that holds the substring 'map'
GivenMap(nl, var) == ~NotGiven(nl, var) /\ ContainsMap(file[nl][var.name])

MapEvaluated(nl, var) ==
    \E j \in 1..Len(mapLog) : mapLog[j].nl = nl /\ mapLog[j].card = var.name

\* C26: a card whose text in the control file holds the substring 'map' is
\* never kept as that text once it was handled: it went through
\* from_mapping.  When the text has not the form 'map NAMELIST > CARD: VAR
\* -> EXPR' the card is never passed, handle_pn_control never returns, and
\* the error raised at the card is the AttributeError of from_mapping; no
\* mapping is evaluated for it.
C26_MapSubstring ==
    \A nl \in Namelists : \A k \in 1..Len(Cards[nl]) :
      LET var == Cards[nl][k]
          text == file[nl][var.name]
      IN  GivenMap(nl, var) =>
            /\ Handled(nl, k) =>
                  /\ sim[nl][var.name] # StrV(text)
                  /\ MapEvaluated(nl, var)
            /\ MapParse(text) = NoMatch =>
                  /\ ~Handled(nl, k)
                  /\ ~Resolved
                  /\ ~MapEvaluated(nl, var)
                  /\ (pc = "failed" /\ AtCard(nl, k)) =>
                        err.type = "AttributeError"

\* the control file gives map_ux = 'remap: (ux, uy) -> ux': resolution
\* stopped at that card with the AttributeError
C26_Witness ==
    /\ file["surface"]["map_ux"] = "remap: (ux, uy) -> ux"
    /\ pc = "failed"
    /\ AtCard("surface", 4)
    /\ Cards["surface"][4].name = "map_ux"
    /\ err.type = "AttributeError"
    /\ sim["surface"]["map_ux"] = StrV("remap: (ux, uy) -> ux")

---------------------------------------------------------------------------
(* Properties of a run whose dimensions is neither 1 nor 2 *)

\* the control files of SpecOther: dimensions = 3, with and without
\* post-processing and stress
OtherOptions ==
    << {{<<"control", "gsf_file", "gsf.dat">>}},
       {{<<"control", "dimensions", "3">>}},
       {{<<"struc", "a", "3.5">>}},
       {{<<"elast", "k_parallel", "3.5">>}},
       {{<<"surface", "map_ux", "ux">>, <<"surface", "map_uy", "uy">>}},
       Given("control", "record", {"False"}),
       Given("properties", "max_rho", {"True"}),
       Given("stress", "calculate_stress", {"False"}) >>

InitOther ==
    /\ file \in FilesFrom(OtherOptions, 1)
    /\ InitPN
    /\ gr = GrIdle

SpecOther == InitOther /\ [][Next]_vars

\* control.dimensions was resolved to an integer other than 1 and 2
OtherDims ==
    control("dimensions").k = "int" /\ control("dimensions").n \notin {1, 2}

LastStarted == IF started = <<>> THEN "" ELSE started[Len(started)]

PostProcessingAsked ==
    \/ Truthy(control("plot"))
    \/ Truthy(prop("max_rho"))
    \/ Truthy(prop("width"))
    \/ Truthy(control("record"))

\* C27: with control.dimensions neither 1 nor 2, resolution accepts the
\* value; no fitter is ever called and E and par are never set; run_sim
\* does not raise; the run never completes the report.  A run that fails
\* after run_sim fails on a missing attribute (or on opening the report
\* file): in post-processing when post-processing is asked for, else in
\* peierls when the stress is asked for, else in write_output.
C27_OtherDimensions ==
    OtherDims =>
      /\ FitterCalls = {}
      /\ self["E"] = "unset"
      /\ self["par"] = "unset"
      /\ ~(pc = "failed" /\ LastStarted = "Relax")
      /\ pc # "done"
      /\ ~Ended("Report")
      /\ Ended("PostProcess") => ~PostProcessingAsked
      /\ Ended("Stress") => ~CalculateStress
      /\ (pc = "failed" /\ Ended("Relax"))
           => \/ err.type = "AttributeError"
              \/ LastStarted = "Report" /\ err.type = "IOError"

\* dimensions = 3, no stress asked for: run_sim and peierls returned and
\* the run failed in write_output, where K_store is missing
C27_Witness ==
    /\ control("dimensions") = IntV(3)
    /\ Ended("Resolve")
    /\ Ended("Relax")
    /\ Ended("Stress")
    /\ pc = "failed"
    /\ LastStarted = "Report"
    /\ err = Error("AttributeError", "K_store", "")
    /\ self["E"] = "unset"
    /\ FitterCalls = {}

---------------------------------------------------------------------------
(* Properties of the explicit coefficients *)

\* the control files of SpecElast: k_parallel and k_normal given or not,
\* with or without the inputs of the isotropic mode
ElastOptions ==
    << {{<<"control", "gsf_file", "gsf.dat">>}},
       {{<<"struc", "a", "3.5">>}},
       {{<<"surface", "map_ux", "ux">>, <<"surface", "map_uy", "uy">>}},
       Given("elast", "k_parallel", {"3.5"}),
       Given("elast", "k_normal", {"4.0"}),
       Given("elast", "shear", {"4.0"}),
       Given("elast", "poisson", {"0.25"}),
       Given("stress", "calculate_stress", {"False"}) >>

InitElast ==
    /\ file \in FilesFrom(ElastOptions, 1)
    /\ InitPN
    /\ gr = GrIdle

SpecElast == InitElast /\ [][Next]_vars

\* the index of k_normal in elast_cards
KNormalIndex == CHOOSE k \in 1..Len(elast_cards) : elast_cards[k].name = "k_normal"

\* C28: when the control file gives k_parallel, the mode recorded by the
\* elasticity test is specific whether or not it gives k_normal; the
\* resolution raises no error of its own; coeff.predefined is the only
\* coefficient function called, once, with k_parallel and k_normal: when
\* the file does not give k_normal the card holds its default NaN once
\* handled and the call is made with that NaN.
C28_SpecificMode ==
    Present("k_parallel") =>
      /\ PastElastTest => elast("coefficients") = StrV("specific")
      /\ (pc = "failed" /\ ~Ended("Resolve")) => err = External
      /\ Ended("Resolve") => Cardinality(CoeffCalls) = 1
      /\ (~Present("k_normal") /\ Handled("elast", KNormalIndex))
           => elast("k_normal") = NaN
      /\ \A k \in CoeffCalls :
           calls[k] = Call("coeff.predefined", FloatOf("3.5"),
                           IF Present("k_normal") THEN FloatOf("4.0") ELSE NaN)

\* k_parallel given without k_normal and without any other elastic input:
\* the constructor went on after calling coeff.predefined with NaN
C28_Witness ==
    /\ Present("k_parallel")
    /\ ~Present("k_normal")
    /\ ~Present("shear")
    /\ Ended("Resolve")
    /\ elast("coefficients") = StrV("specific")
    /\ elast("k_normal") = NaN
    /\ \E k \in CoeffCalls :
         calls[k] = Call("coeff.predefined", FloatOf("3.5"), NaN)

---------------------------------------------------------------------------
(* Properties of the surface repair: scan order and the value -10000 *)

\* value e, whatever it is, is summed as a neighbour: it is a number and
\* not more than 1.0 below the reference energy
Counted(e) == ~e.nan /\ ~FLess(e, FAdd(gr.E_perfect, Num(-1)))

\* the sum and the number of the neighbours nb[1..k] of cell c that were
\* summed, in the grid as it was when c was visited
RECURSIVE CountedSum(_, _, _)
CountedSum(c, nb, k) ==
    IF k = 0 THEN [sum |-> Num(0), n |-> 0]
    ELSE LET before == CountedSum(c, nb, k - 1)
             e == GridAt(c)[nb[k]]
         IN  IF Counted(e)
             THEN [sum |-> FAdd(before.sum, e), n |-> before.n + 1]
             ELSE before

\* C29: the surface repair visits the cells row by row and updates the
\* grid in place: the line of a visited cell holds the value the grid
\* keeps for it, and that value is computed from the grid as it was at that
\* moment, repaired cells included.  A neighbour equal to -10000 is summed
\* like any other value unless it is more than 1.0 below the reference
\* energy.  (The value -10000 is given, with the warning, only in runs
\* whose reference energy is NaN, where no value is below it.)
C29_SentinelCounts ==
    (gr.pc \in {"repair", "failed", "done"} /\ gr.dim = 2) =>
      /\ \A c \in Cells(gr.x_max, gr.y_max) :
           Visited(c) =>
             LET nb == Neighbours2D(c[1], c[2], gr.x_max, gr.y_max)
                 r == CountedSum(c, nb, Len(nb))
                 read == gr.input[c]
             IN  /\ Written(c)[1] = c[1]
                 /\ Written(c)[2] = c[2]
                 /\ Written(c)[3] = gr.energies[c]
                 /\ Written(c)[3] =
                      IF Counted(read) THEN read
                      ELSE IF r.n = 0 THEN Sentinel
                      ELSE FDiv(r.sum, r.n)
      /\ gr.warnings # <<>> => gr.E_perfect.nan

\* in a grid of 3 by 2 cells, cell (0, 0) had no valid neighbour and was
\* set to -10000; cell (0, 1), repaired after it, is the mean of -10000
\* twice and 5.0 twice
C29_Witness ==
    /\ gr.pc = "done"
    /\ gr.dim = 2
    /\ gr.x_max = 2
    /\ gr.y_max = 1
    /\ gr.warnings = << <<0, 0>> >>
    /\ gr.input[<<1, 1>>] = Num(5)
    /\ Written(<<0, 0>>)[3] = Sentinel
    /\ Written(<<0, 1>>)[3] = FDiv(Num(-19990), 4)

===========================================================================
